---- MODULE Spec2Model ----
(***************************************************************************)
(* The navigation controller of the router (src/src/router.ts) driving the *)
(* in-memory history (createMemoryHistory).  A location object is modelled *)
(* by its path together with the identity of the object (tok): the router  *)
(* compares the pending location by identity, and every resolve() returns  *)
(* a new object.                                                           *)
(***************************************************************************)
EXTENDS Naturals, Integers, Sequences, FiniteSets, TLC

VARIABLES
  currentRoute,        \* currentRoute.value
  pendingLocation,     \* identity of the pending location object
  nextTok,             \* identity given to the next resolved location
  navs,                \* the navigations, by the identity of their target
  queue,               \* memory history: entries
  position,            \* memory history: index of the current entry (from 0)
  ready,               \* router: ready flag (the history listener is attached)
  beforeGuards,        \* router.beforeEach registrations, in list order
  beforeResolveGuards, \* router.beforeResolve registrations, in list order
  leaveGuards,         \* record.leaveGuards: number of registered guards
  updateGuards,        \* record.updateGuards: number of registered guards
  afterGuards,         \* the after guards of go() calls, in list order
  errorHandlers,       \* the error handlers of go() calls, in list order
  goCalls,             \* the promises returned by go(), by call
  readyHandlers,       \* number of isReady() waiters in the list
  matchers,            \* matcher registry: the ranked array of matchers
  matcherMap,          \* matcher registry: name -> matcher
  created,             \* the matcher objects created so far, by identity
  web,                 \* web history: entries, pauseState, pending traversals
  installedApps,       \* router: number of apps the router is installed in
  started,             \* router: the initial navigation was started
  removeHistoryListener, \* router: setupListeners() has assigned the function
  last                 \* history variable: the navigation that settled last

vars == <<currentRoute, pendingLocation, nextTok, navs, queue, position, ready,
          beforeGuards, beforeResolveGuards, leaveGuards, updateGuards,
          afterGuards, errorHandlers, goCalls, readyHandlers,
          matchers, matcherMap, created, web, installedApps, started,
                 removeHistoryListener,
                 last>>

----------------------------------------------------------------------------
(* Bounds *)

\* navigations (resolved target objects) started in one behaviour
MaxNavigations == 3
\* navigations started in one behaviour of SpecSeq
MaxSeqNavigations == 2
\* nested calls of pushWithRedirect the call stack of the engine holds
MaxStack == 12
\* location objects resolved in one behaviour of SpecChain
MaxChain == 13
MaxGoCalls == 2
MaxWaiters == 2
MaxMatchers == 4
\* history.go() calls whose popstate event has not been delivered yet
MaxTraversals == 2
\* entries of the memory history in one behaviour of SpecMemory
MaxEntries == 4
\* apps the router is installed in at one time
MaxApps == 2

----------------------------------------------------------------------------
(* The route table given to createRouter and what the views declare *)

NONE == "none"

\* history/common.ts START: the location a memory history starts on
START == ""

Records == {"a", "p", "c1", "r1", "r2", "loop"}

\* the records' redirect option
Redirect(r) ==
  CASE r = "r1" -> "/r2"
    [] r = "r2" -> "/a"
    [] r = "loop" -> "/loop"
    [] OTHER -> NONE

\* matched chain, root first, of the location resolved from an absolute path
Matched(path) ==
  CASE path = "/a" -> <<"a">>
    [] path = "/p/c1" -> <<"p", "c1">>
    [] path = "/r1" -> <<"r1">>
    [] path = "/r2" -> <<"r2">>
    [] path = "/loop" -> <<"loop">>
    [] OTHER -> <<>>

\* the targets the application navigates to
Targets == {"/a", "/p/c1", "/r1"}
\* a target whose record redirects to itself
LoopTargets == {"/loop"}

\* records whose component declares beforeRouteLeave / Update / Enter
CompLeave == {"p", "c1"}
CompUpdate == {"p"}
CompEnter == {"c1"}
\* records with a beforeEnter option
HasBeforeEnter == {"a", "p"}
\* records whose mounted view registers guards with onBeforeRouteLeave/Update
RuntimeLeave == {"p", "c1"}
RuntimeUpdate == {"c1"}

\* the guards the application registers with beforeEach and with beforeResolve,
\* in the order in which it registers them
AppBeforeGuards == <<"b1", "b2">>
AppResolveGuards == <<"s1", "s2">>

\* history deltas the application asks for
Deltas == {-1, 1}

\* start marks the START_LOCATION_NORMALIZED object itself (compared by identity)
START_LOCATION_NORMALIZED == [path |-> "/", start |-> TRUE, redirectedFrom |-> NONE]

----------------------------------------------------------------------------
(* Helpers on sequences *)

Range(s) == {s[i] : i \in DOMAIN s}

Reverse(s) == [i \in 1..Len(s) |-> s[Len(s) + 1 - i]]

RECURSIVE Flatten(_)
Flatten(ss) == IF ss = <<>> THEN <<>> ELSE Head(ss) \o Flatten(Tail(ss))

\* Array.prototype.filter
Filter(s, Keep(_)) == SelectSeq(s, Keep)

----------------------------------------------------------------------------
(* Guards and the records that change between two locations *)

\* redirects chained from one origin before the development build gives up
MaxRedirects == 10

\* __DEV__: the development build is the one modelled
DEV == TRUE

Guard(kind, rec, n) == [kind |-> kind, rec |-> rec, n |-> n]

canceledNavigationCheck == Guard("canceledNavigationCheck", "", 0)

\* the records whose component declares the guard
Declares(guardType) ==
  CASE guardType = "beforeRouteLeave" -> CompLeave
    [] guardType = "beforeRouteUpdate" -> CompUpdate
    [] guardType = "beforeRouteEnter" -> CompEnter

\* one guard per record, in the order of the records given
extractComponentsGuards(matched, guardType) ==
  Flatten([i \in 1..Len(matched) |->
             IF matched[i] \in Declares(guardType)
             THEN <<Guard(guardType, matched[i], 0)>> ELSE <<>>])

\* [leavingRecords, updatingRecords, enteringRecords]
extractChangingRecords(to, from) ==
  LET inTo(r) == r \in Range(Matched(to))
      notInTo(r) == r \notin Range(Matched(to))
      notInFrom(r) == r \notin Range(Matched(from))
  IN << Filter(Matched(from), notInTo),
        Filter(Matched(from), inTo),
        Filter(Matched(to), notInFrom) >>

\* the guards registered at run time on the records, record by record
RecordGuards(records, kind, counts) ==
  Flatten([i \in 1..Len(records) |->
             [j \in 1..counts[records[i]] |-> Guard(kind, records[i], j)]])

\* variant: the list is walked from its end
GlobalGuardsReversed(kind, list) ==
  [i \in 1..Len(list) |-> Guard(kind, "", list[Len(list) + 1 - i])]

\* useCallbacks().list() of a list of global guards, as guards of that kind
GlobalGuards(kind, list) == [i \in 1..Len(list) |-> Guard(kind, "", list[i])]

\* the guards navigate() queues for the phase, before the trailing check
PhaseGuards(s, phase, to, from) ==
  LET changing == extractChangingRecords(to, from)
      leavingRecords == changing[1]
      updatingRecords == changing[2]
      notInTo(r) == r \notin Range(Matched(to))
      inFrom(r) == r \in Range(Matched(from))
      notInFrom(r) == r \notin Range(Matched(from))
      entersWithGuard(r) == r \in HasBeforeEnter /\ r \notin Range(Matched(from))
  IN CASE phase = "beforeRouteLeave" ->
            extractComponentsGuards(Reverse(Filter(Matched(from), notInTo)),
                                    "beforeRouteLeave")
              \o RecordGuards(leavingRecords, "leaveGuards", s.leaveGuards)
       [] phase = "beforeEach" -> GlobalGuards("beforeEach", s.beforeGuards)
       [] phase = "beforeRouteUpdate" ->
            extractComponentsGuards(Filter(Matched(to), inFrom), "beforeRouteUpdate")
              \o RecordGuards(updatingRecords, "updateGuards", s.updateGuards)
       [] phase = "beforeEnter" ->
            [i \in 1..Len(Filter(Matched(to), entersWithGuard)) |->
               Guard("beforeEnter", Filter(Matched(to), entersWithGuard)[i], 0)]
       [] phase = "beforeRouteEnter" ->
            extractComponentsGuards(Filter(Matched(to), notInFrom), "beforeRouteEnter")
       [] phase = "beforeResolve" -> GlobalGuards("beforeResolve", s.beforeResolveGuards)

\* location.ts isSameRouteLocation: the two locations are value-equal
isSameRouteLocation(a, b) == a = b

----------------------------------------------------------------------------
(* The router's state as one value, and the navigation records *)

State ==
  [cur |-> currentRoute, pend |-> pendingLocation, tok |-> nextTok, navs |-> navs,
   queue |-> queue, pos |-> position, ready |-> ready,
   beforeGuards |-> beforeGuards, beforeResolveGuards |-> beforeResolveGuards,
   leaveGuards |-> leaveGuards, updateGuards |-> updateGuards,
   afterGuards |-> afterGuards, errorHandlers |-> errorHandlers,
   goCalls |-> goCalls, readyHandlers |-> readyHandlers, last |-> last,
   listener |-> removeHistoryListener,
   \* within one step: the error handlers, the after guards have been invoked
   errorHandled |-> FALSE, afterEach |-> FALSE,
   \* within one step: the calls of triggerAfterEach
   afterCalls |-> 0,
   \* within one step: the effects of a confirmation, in the order made
   steps |-> <<>>]

CommitRouter(s) ==
  /\ currentRoute' = s.cur
  /\ pendingLocation' = s.pend
  /\ nextTok' = s.tok
  /\ navs' = s.navs
  /\ queue' = s.queue
  /\ position' = s.pos
  /\ ready' = s.ready
  /\ beforeGuards' = s.beforeGuards
  /\ beforeResolveGuards' = s.beforeResolveGuards
  /\ leaveGuards' = s.leaveGuards
  /\ updateGuards' = s.updateGuards
  /\ afterGuards' = s.afterGuards
  /\ errorHandlers' = s.errorHandlers
  /\ goCalls' = s.goCalls
  /\ readyHandlers' = s.readyHandlers
  /\ last' = s.last
  /\ removeHistoryListener' = s.listener

Commit(s) ==
  /\ CommitRouter(s)
  /\ UNCHANGED <<matchers, matcherMap, created, web, installedApps, started>>

IdleNav ==
  [st |-> "idle", kind |-> NONE, call |-> 0, to |-> NONE,
   from |-> START_LOCATION_NORMALIZED, redirectedFrom |-> NONE,
   replace |-> FALSE, force |-> FALSE, delta |-> 0, count |-> 0,
   phase |-> 0, queue |-> <<>>, idx |-> 0, outcome |-> NONE,
   \* history variables: the guards invoked and how many of them have settled,
   \* the last answer of a guard, the History call made, whether the current
   \* location was set, whether a newer navigation started meanwhile, the
   \* location first requested and whether a redirect followed it
   trace |-> <<>>, settled |-> 0, answer |-> NONE, persisted |-> NONE,
   finalized |-> FALSE, superseded |-> FALSE, first |-> NONE, redirected |-> FALSE,
   \* the redirects in a row, each to the target of the navigation whose guard
   \* asked for it, that led to the navigation
   selfRedirects |-> 0,
   \* how the promise of the call was settled, whether the error handlers and
   \* the after guards were invoked for the navigation
   promise |-> NONE, handled |-> FALSE, after |-> FALSE,
   \* the calls of triggerAfterEach in the step that settled the navigation
   afterCalls |-> 0,
   \* the effects of the step that settled the navigation, in the order made
   steps |-> <<>>,
   \* the last app was unmounted while the navigation was in flight
   unmounted |-> FALSE]

\* the location object of navigation n
Location(n) == [path |-> n.to, start |-> FALSE, redirectedFrom |-> n.redirectedFrom]

\* navigation t has settled with the outcome: nothing of it is looked at any
\* more; last keeps what the properties
\* look at (the force option only of a navigation that ended Duplicated)
Settle(s, t, outcome, promise) ==
  LET n == s.navs[t]
  IN [s EXCEPT !.navs[t] = [IdleNav EXCEPT !.st = "done"],
               !.last = [IdleNav EXCEPT !.st = "done", !.outcome = outcome,
                                        !.kind = n.kind, !.phase = n.phase,
                                        !.force = n.force /\ outcome = "duplicated",
                                        !.answer = n.answer,
                                        !.persisted = n.persisted,
                                        !.finalized = n.finalized,
                                        !.superseded = n.superseded,
                                        !.promise = promise,
                                        !.handled = s.errorHandled,
                                        !.after = s.afterEach,
                                        !.afterCalls = s.afterCalls,
                                        !.steps = s.steps,
                                        !.unmounted = n.unmounted]]

----------------------------------------------------------------------------
(* createMemoryHistory *)

RemoveAt(q, i) == SubSeq(q, 1, i - 1) \o SubSeq(q, i + 1, Len(q))

Max(a, b) == IF a >= b THEN a ELSE b
Min(a, b) == IF a <= b THEN a ELSE b

\* routerHistory.location
HistoryLocation(s) == s.queue[s.pos + 1]

setLocation(s, location) ==
  LET p == s.pos + 1
  IN IF p = Len(s.queue)
     THEN [s EXCEPT !.pos = p, !.queue = Append(s.queue, location)]
     ELSE [s EXCEPT !.pos = p, !.queue = Append(SubSeq(s.queue, 1, p), location)]

HistoryReplace(s, to) ==
  setLocation([s EXCEPT !.queue = RemoveAt(s.queue, s.pos + 1), !.pos = s.pos - 1], to)

HistoryPush(s, to) == setLocation(s, to)

\* variant: the move is not clamped
HistoryGoUnclamped(s, delta) == [s EXCEPT !.pos = s.pos + delta]

\* go(delta, false): the move alone, no listener is triggered
HistoryGoSilent(s, delta) ==
  [s EXCEPT !.pos = Max(0, Min(s.pos + delta, Len(s.queue) - 1))]

----------------------------------------------------------------------------
(* Finalization and errors *)

\* variant: a navigation still in its guards cancels the others
checkCanceledNavigationWhileOthers(s, t) ==
  s.pend # t \/ \E u \in DOMAIN s.navs : u # t /\ s.navs[u].st = "guard"

checkCanceledNavigation(s, t) == s.pend # t

\* markAsReady(err), once only: setupListeners() attaches the history
\* listener, every waiter of the list is resolved or rejected, the list is
\* reset
markAsReady(s) ==
  IF s.ready THEN s
  ELSE [s EXCEPT !.ready = TRUE, !.listener = TRUE, !.readyHandlers = 0,
                 !.steps = Append(@, "readyHandlers")]

\* the handler removes itself from its callback list
Unregister(list, g) == Filter(list, LAMBDA h : h # g)

\* variant: the after guard of go() leaves the error handler registered
goAfterGuardKeepsErrorHandler(s, g, failure) ==
  [s EXCEPT !.afterGuards = Unregister(@, g),
            !.goCalls[g] = [promise |-> "resolved", value |-> failure,
                            settles |-> @.settles + 1]]

\* the after guard go() call g has registered is invoked with the failure
goAfterGuard(s, g, failure) ==
  [s EXCEPT !.errorHandlers = Unregister(@, g),
            !.afterGuards = Unregister(@, g),
            !.goCalls[g] = [promise |-> "resolved", value |-> failure,
                            settles |-> @.settles + 1]]

\* the error handler go() call g has registered is invoked with the error
goErrorHandler(s, g) ==
  [s EXCEPT !.errorHandlers = Unregister(@, g),
            !.afterGuards = Unregister(@, g),
            !.goCalls[g] = [promise |-> "rejected", value |-> "error",
                            settles |-> @.settles + 1]]

RECURSIVE invokeAfterGuards(_, _, _)
RECURSIVE invokeErrorHandlers(_, _)

\* every handler of the list is invoked, in list order
invokeAfterGuards(s, list, failure) ==
  IF list = <<>> THEN s
  ELSE invokeAfterGuards(goAfterGuard(s, Head(list), failure), Tail(list), failure)

invokeErrorHandlers(s, list) ==
  IF list = <<>> THEN s
  ELSE invokeErrorHandlers(goErrorHandler(s, Head(list)), Tail(list))

\* the error handlers are invoked; the caller returns the rejected promise
triggerError(s) ==
  LET s1 == markAsReady(s)
  IN [invokeErrorHandlers(s1, s1.errorHandlers) EXCEPT !.errorHandled = TRUE]

\* variant: the after guards are not given the failure
triggerAfterEachWithoutFailure(s, failure) ==
  [invokeAfterGuards(s, s.afterGuards, NONE) EXCEPT !.afterEach = TRUE,
                                                    !.afterCalls = @ + 1]

\* the after guards are invoked with the failure of the navigation
triggerAfterEach(s, failure) ==
  [invokeAfterGuards(s, s.afterGuards, failure) EXCEPT !.afterEach = TRUE,
                                                       !.afterCalls = @ + 1,
                                                       !.steps = Append(@, "afterEach")]

\* variant: the first navigation is pushed like any other
finalizeAcceptedFirstPushed(s, t, isPush) ==
  LET n == s.navs[t]
      s2 == IF isPush
            THEN IF n.replace
                 THEN [HistoryReplace(s, n.to) EXCEPT !.navs[t].persisted = "replace"]
                 ELSE [HistoryPush(s, n.to) EXCEPT !.navs[t].persisted = "push"]
            ELSE s
  IN markAsReady([s2 EXCEPT !.cur = Location(n), !.navs[t].finalized = TRUE])

\* finalizeNavigation of navigation t once checkCanceledNavigation has passed
finalizeAccepted(s, t, isPush) ==
  LET n == s.navs[t]
      leavingRecords == extractChangingRecords(n.to, n.from.path)[1]
      cleared(counts) ==
        [r \in Records |-> IF r \in Range(leavingRecords) THEN 0 ELSE counts[r]]
      s1 == [s EXCEPT !.leaveGuards = cleared(s.leaveGuards),
                      !.updateGuards = cleared(s.updateGuards)]
      isFirstNavigation == n.from.start
      s2 == IF isPush
            THEN IF n.replace \/ isFirstNavigation
                 THEN [HistoryReplace(s1, n.to) EXCEPT !.navs[t].persisted = "replace",
                                                       !.steps = Append(@, "routerHistory")]
                 ELSE [HistoryPush(s1, n.to) EXCEPT !.navs[t].persisted = "push",
                                                    !.steps = Append(@, "routerHistory")]
            ELSE s1
      \* currentRoute.value = toLocation, then handleScroll(...)
      s3 == [s2 EXCEPT !.cur = Location(n), !.navs[t].finalized = TRUE,
                       !.steps = @ \o <<"currentRoute", "handleScroll">>]
  IN markAsReady(s3)

\* variant: no check of the pending location
finalizeNavigationUnchecked(s, t, isPush) ==
  [state |-> finalizeAccepted(s, t, isPush), failure |-> NONE]

\* variant: the check of the pending location is made after the updates
finalizeNavigationCheckedLate(s, t, isPush) ==
  [state |-> finalizeAccepted(s, t, isPush),
   failure |-> IF checkCanceledNavigation(s, t) THEN "cancelled" ELSE NONE]

\* finalizeNavigation: the new state, and whether it returned a failure
finalizeNavigation(s, t, isPush) ==
  IF checkCanceledNavigation(s, t)
  THEN [state |-> s, failure |-> "cancelled"]
  ELSE [state |-> finalizeAccepted(s, t, isPush), failure |-> NONE]

----------------------------------------------------------------------------
(* navigate, pushWithRedirect and the history listener *)

\* variant: the global before guards run ahead of the leave guards
PhaseOrderBeforeFirst ==
  <<"beforeEach", "beforeRouteLeave", "beforeRouteUpdate",
    "beforeEnter", "beforeRouteEnter", "beforeResolve">>

\* the phases of navigate(), in the order of its then-chain
PhaseOrder ==
  <<"beforeRouteLeave", "beforeEach", "beforeRouteUpdate",
    "beforeEnter", "beforeRouteEnter", "beforeResolve">>

\* navigate(): the queue of the ph-th phase, ending with the cancellation check
startPhase(s, t, ph) ==
  LET n == s.navs[t]
  IN [s EXCEPT !.navs[t].phase = ph,
               !.navs[t].queue =
                  Append(PhaseGuards(s, PhaseOrder[ph], n.to, n.from.path),
                         canceledNavigationCheck),
               !.navs[t].idx = 0]

Live(n) == n.st \in {"guard", "accepted"}

\* variant: the location object becomes pending only when no navigation is
\* in flight
SupersedeOnlyWhenIdle(s, t) ==
  IF \E u \in DOMAIN s.navs : s.navs[u].st \in {"guard", "accepted"}
  THEN [s EXCEPT !.tok = t + 1]
  ELSE [s EXCEPT !.pend = t, !.tok = t + 1]

\* a new location object becomes pending: the navigations that have not
\* settled are superseded from now on
Supersede(s, t) ==
  [s EXCEPT !.pend = t, !.tok = t + 1,
            !.navs = [u \in DOMAIN s.navs |->
                        IF Live(s.navs[u])
                        THEN [s.navs[u] EXCEPT !.superseded = TRUE]
                        ELSE s.navs[u]]]

\* variant: the location just left by the redirect always replaces the origin
keepRedirectedFromLastHop(redirectedFrom, target) == target

\* redirectedFrom || targetLocation
keepRedirectedFrom(redirectedFrom, target) ==
  IF redirectedFrom # NONE THEN redirectedFrom ELSE target

\* variant: the force option is not looked at
shortCircuitsForced(force, from, to) == isSameRouteLocation(from, to)

\* !force && isSameRouteLocation(stringifyQuery, from, targetLocation)
shortCircuits(force, from, to) == ~force /\ isSameRouteLocation(from, to)

\* variant: the count is never raised
RedirectCountKept(n, to) == n.count

\* the guard asked for a redirect once more: the count kept on redirectedFrom
RedirectCount(n, to) ==
  IF isSameRouteLocation(to, n.to) /\ n.redirectedFrom # NONE
  THEN n.count + 1 ELSE n.count

\* history variable selfRedirects of the navigation a redirect of n to the
\* location starts
SelfRedirects(n, to) ==
  IF isSameRouteLocation(to, n.to) THEN n.selfRedirects + 1 ELSE 0

\* variant: a refusal is not told from an unknown error
isNavigationFailureButAborted(result) == result.is \in {"cancelled", "redirect"}

\* isNavigationFailure(error, NAVIGATION_ABORTED | NAVIGATION_CANCELLED |
\* NAVIGATION_GUARD_REDIRECT) in the catch of pushWithRedirect
isNavigationFailure(result) == result.is \in {"aborted", "cancelled", "redirect"}

RECURSIVE runGuardQueue(_, _)
RECURSIVE navigateFailed(_, _, _)
RECURSIVE pushWithRedirect(_, _, _, _)

\* runGuardQueue's chain of navigation t goes on after its idx-th element has
\* resolved: the next guard is invoked, or the check at the end of the queue
\* is made and the next phase starts; after the last phase navigate() resolves
runGuardQueue(s, t) ==
  LET n == s.navs[t]
      g == n.queue[n.idx + 1]
  IN IF g = canceledNavigationCheck
     THEN IF checkCanceledNavigation(s, t)
          THEN navigateFailed(s, t, [is |-> "cancelled"])
          ELSE IF n.phase = Len(PhaseOrder)
               THEN [s EXCEPT !.navs[t].st = "accepted", !.navs[t].queue = <<>>,
                              !.navs[t].idx = 0]
               ELSE runGuardQueue(startPhase(s, t, n.phase + 1), t)
     ELSE [s EXCEPT !.navs[t].idx = n.idx + 1,
                    !.navs[t].trace = Append(n.trace, g)]

navigate(s, t) == runGuardQueue(startPhase(s, t, 1), t)

\* what pushWithRedirect (kind push) and the history listener (kind pop) chain
\* after a navigate() that did not accept: result.is is cancelled, aborted,
\* error or redirect
navigateFailed(s, t, result) ==
  LET n == s.navs[t]
      back == IF n.delta # 0 THEN HistoryGoSilent(s, 0 - n.delta) ELSE s
  IN IF n.kind = "push"
     THEN IF ~isNavigationFailure(result)
          THEN Settle(triggerError(s), t, "error", "rejected")
          ELSE IF result.is = "redirect"
          THEN IF DEV /\ RedirectCount(n, result.to) # n.count
                  /\ RedirectCount(n, result.to) > MaxRedirects
               THEN Settle(s, t, "infinite", "rejected")
               ELSE pushWithRedirect(
                      Settle(s, t, "redirected", "chained"), result.to,
                      keepRedirectedFrom(n.redirectedFrom, n.to),
                      [replace |-> n.replace, force |-> n.force, call |-> n.call,
                       count |-> RedirectCount(n, result.to),
                       first |-> n.first, redirected |-> TRUE, hops |-> 0,
                       selfRedirects |-> SelfRedirects(n, result.to),
                       inThen |-> TRUE])
          ELSE Settle(triggerAfterEach(s, result.is), t, result.is, "resolved")
     ELSE CASE result.is \in {"cancelled", "aborted"} ->
                 Settle(triggerAfterEach(back, result.is), t, result.is, NONE)
            [] result.is = "error" -> Settle(triggerError(back), t, "error", NONE)
            [] result.is = "redirect" ->
                 pushWithRedirect(
                   Settle(back, t, "redirected", NONE), result.to, n.to,
                   [replace |-> FALSE, force |-> FALSE, call |-> 0, count |-> 0,
                    first |-> n.first, redirected |-> TRUE, hops |-> 0,
                    selfRedirects |-> SelfRedirects(n, result.to),
                    inThen |-> TRUE])

\* what pushWithRedirect and the history listener chain after a navigate()
\* that accepted
navigateAccepted(s, t) ==
  LET n == s.navs[t]
      f == finalizeNavigation(s, t, n.kind = "push")
      back == IF n.delta # 0 THEN HistoryGoSilent(s, 0 - n.delta) ELSE s
  IN IF n.kind = "push"
     THEN Settle(triggerAfterEach(f.state, f.failure), t,
                 IF f.failure = NONE THEN "confirmed" ELSE f.failure, "resolved")
     ELSE IF f.failure = NONE
          THEN Settle(triggerAfterEach(f.state, NONE), t, "confirmed", NONE)
          ELSE Settle(triggerAfterEach(back, f.failure), t, f.failure, NONE)

\* variant: the queue goes on whatever the guard answered
guardSettledIgnored(s, t, answer) == runGuardQueue(s, t)

\* a guard of navigation t has settled: a queue goes on only when its guard
\* resolved
guardSettled(s, t, answer) ==
  IF answer.is = "allow" THEN runGuardQueue(s, t) ELSE navigateFailed(s, t, answer)

\* the calls of pushWithRedirect nested by record redirects exhaust the call
\* stack: the engine throws out of the innermost call, whose target had
\* become the pending location
stackOverflow(s, to, opts) ==
  LET t == s.tok
      n == [IdleNav EXCEPT !.kind = "push", !.call = opts.call, !.to = to,
                           !.first = opts.first, !.redirected = TRUE]
  IN Settle([Supersede(s, t) EXCEPT !.navs = Append(@, n)], t, "overflow",
            IF opts.inThen THEN "rejected" ELSE "thrown")

\* raw locations for which resolve(to) raises: a name that is not
\* registered, a named route without a required parameter
Unresolvable == {"name:missing", "name:user,params:{}"}

\* matcher.resolve throws MATCHER_NOT_FOUND, matcher.stringify throws
resolveRaises(to) == to \in Unresolvable

\* variant: the location becomes pending before resolve(to) raises
resolveThrewAfterPending(s, opts) ==
  [s EXCEPT !.pend = s.tok, !.tok = s.tok + 1,
            !.last = [IdleNav EXCEPT !.st = "done", !.kind = "push",
                                     !.outcome = "unresolved",
                                     !.promise = IF opts.inThen THEN "rejected"
                                                 ELSE "thrown"]]

\* resolve(to) raised in the first statement of pushWithRedirect: nothing
\* is assigned, the error leaves the call
resolveThrew(s, opts) ==
  [s EXCEPT !.last = [IdleNav EXCEPT !.st = "done", !.kind = "push",
                                     !.outcome = "unresolved",
                                     !.promise = IF opts.inThen THEN "rejected"
                                                 ELSE "thrown"]]

\* pushWithRedirect(to, redirectedFrom); opts holds to's options replace and
\* force, the push() call the promise belongs to, redirectedFrom._count, the
\* history variables first and redirected, in hops the calls nested so far
\* by record redirects, and whether a promise callback made the call
pushWithRedirect(s, to, redirectedFrom, opts) ==
  LET matched == Matched(to)
      lastMatched == matched[Len(matched)]
  IN IF resolveRaises(to) THEN resolveThrew(s, opts)
     ELSE IF matched # <<>> /\ Redirect(lastMatched) # NONE
     THEN IF opts.hops >= MaxStack
          THEN stackOverflow(s, to, opts)
          ELSE pushWithRedirect(s, Redirect(lastMatched),
                                keepRedirectedFrom(redirectedFrom, to),
                                [opts EXCEPT !.redirected = TRUE, !.hops = @ + 1])
     ELSE LET t == s.tok
              from == s.cur
              n == [IdleNav EXCEPT !.st = "guard", !.kind = "push",
                                   !.call = opts.call, !.to = to, !.from = from,
                                   !.redirectedFrom = redirectedFrom,
                                   !.replace = opts.replace, !.force = opts.force,
                                   !.count = opts.count, !.first = opts.first,
                                   !.redirected = opts.redirected,
                                   !.selfRedirects = opts.selfRedirects]
              s1 == [Supersede(s, t) EXCEPT !.navs = Append(@, n)]
          IN IF shortCircuits(opts.force, from.path, to)
             THEN Settle(triggerAfterEach(s1, "duplicated"), t, "duplicated", "resolved")
             ELSE navigate(s1, t)

\* resolve(to) of the history listener: START is resolved relative to the
\* current location
ListenerTarget(s) ==
  IF HistoryLocation(s) = START THEN s.cur.path ELSE HistoryLocation(s)

\* the callback setupListeners() gives to routerHistory.listen
historyListener(s, delta) ==
  LET t == s.tok
      n == [IdleNav EXCEPT !.st = "guard", !.kind = "pop", !.to = ListenerTarget(s),
                           !.from = s.cur, !.delta = delta,
                           !.first = ListenerTarget(s)]
  IN navigate([Supersede(s, t) EXCEPT !.navs = Append(@, n)], t)

----------------------------------------------------------------------------
(* The matcher registry (createRouterMatcher).  A matcher object is known   *)
(* by its identity, its index in created; 0 stands for undefined.           *)

\* the segments of a path pattern: a literal, :name, :name*
Static(text) ==
  [static |-> TRUE, text |-> text, optional |-> FALSE, repeatable |-> FALSE,
   custom |-> FALSE]

Param(name) ==
  [static |-> FALSE, text |-> name, optional |-> FALSE, repeatable |-> FALSE,
   custom |-> FALSE]

ParamZeroOrMore(name) ==
  [Param(name) EXCEPT !.optional = TRUE, !.repeatable = TRUE]

\* the raw records the application registers, and the names they declare
RouteRecords == {"/fixed", "/:a", "/:rest*", "/users/:id", "/u/:id", "/home", "/p"}
RouteNames == {"user", "home", "p", "n"}

\* the raw records of an application that nests routes, and the records it
\* adds under a registered parent with router.addRoute(parentName, route)
NestedRecords == {"/p", "/home", "/n", "/users/:id", "/u/:id"}
ChildRecords == {"late", "same"}

\* a RouteRecordRaw: path, name, alias paths, children
RouteRecordRaw(record) ==
  LET plain(path) == [path |-> path, name |-> NONE, alias |-> <<>>,
                      children |-> <<>>, meta |-> {}]
  IN CASE record = "/fixed" -> plain(<<Static("fixed")>>)
       [] record = "/:a" -> plain(<<Param("a")>>)
       [] record = "/:rest*" -> plain(<<ParamZeroOrMore("rest")>>)
       [] record = "/users/:id" ->
            [plain(<<Static("users"), Param("id")>>) EXCEPT !.name = "user"]
       [] record = "/u/:id" ->
            [plain(<<Static("u"), Param("id")>>) EXCEPT !.name = "user"]
       [] record = "/home" ->
            [plain(<<Static("home")>>) EXCEPT !.name = "home",
                                             !.alias = << <<Static("start")>> >>]
       [] record = "/p" ->
            [plain(<<Static("p")>>) EXCEPT
               !.name = "p", !.children = <<"">>,
               !.meta = {<<"layout", "wide">>, <<"title", "parent">>}]
       [] record = "" -> [plain(<<>>) EXCEPT !.meta = {<<"title", "child">>}]
       \* a record and its child declare the same name
       [] record = "/n" ->
            [plain(<<Static("n")>>) EXCEPT !.name = "n", !.children = <<"same">>]
       [] record = "same" -> [plain(<<Static("same")>>) EXCEPT !.name = "n"]
       [] record = "late" -> plain(<<Static("late")>>)

\* the matchers one addRoute(record) creates
Size(record) ==
  (1 + Len(RouteRecordRaw(record).alias)) * (1 + Len(RouteRecordRaw(record).children))

\* the score of a segment: a literal outranks a parameter, a custom pattern
\* outranks the default one, required outranks optional, non-repeatable
\* outranks repeatable
SegmentScore(seg) ==
  IF seg.static THEN 80
  ELSE 60 + (IF seg.custom THEN 10 ELSE 0) - (IF seg.optional THEN 8 ELSE 0)
          - (IF seg.repeatable THEN 20 ELSE 0)

PathScore(path) == [i \in DOMAIN path |-> SegmentScore(path[i])]

RECURSIVE compareScoreArray(_, _)

\* the scores compared segment by segment, the most significant first; the
\* result is negative when a ranks before b
compareScoreArray(a, b) ==
  IF a = <<>> \/ b = <<>> THEN Len(b) - Len(a)
  ELSE IF Head(a) # Head(b) THEN Head(b) - Head(a)
  ELSE compareScoreArray(Tail(a), Tail(b))

comparePathParserScore(r, a, b) ==
  compareScoreArray(r.created[a].score, r.created[b].score)

RECURSIVE PathMatches(_, _)

\* matcher.re.test(path): the pattern against the segments of a path
PathMatches(pattern, path) ==
  IF pattern = <<>> THEN path = <<>>
  ELSE LET seg == Head(pattern)
       IN IF seg.static
          THEN path # <<>> /\ Head(path) = seg.text
                 /\ PathMatches(Tail(pattern), Tail(path))
          ELSE IF seg.repeatable
          THEN \E k \in (IF seg.optional THEN 0 ELSE 1)..Len(path) :
                 PathMatches(Tail(pattern), SubSeq(path, k + 1, Len(path)))
          ELSE \/ path # <<>> /\ PathMatches(Tail(pattern), Tail(path))
               \/ seg.optional /\ PathMatches(Tail(pattern), path)

\* the registry as one value
Registry == [matchers |-> matchers, matcherMap |-> matcherMap, created |-> created]

\* Array.prototype.indexOf, from 1; 0 when the element is not there
IndexOf(list, x) ==
  IF \E i \in DOMAIN list : list[i] = x
  THEN CHOOSE i \in DOMAIN list :
         list[i] = x /\ \A j \in DOMAIN list : list[j] = x => i <= j
  ELSE 0

\* list.splice(list.indexOf(x), 1): the index -1 of an absent element
\* denotes the last element
SpliceIndexOf(list, x) ==
  IF list = <<>> THEN list
  ELSE IF IndexOf(list, x) = 0 THEN SubSeq(list, 1, Len(list) - 1)
  ELSE RemoveAt(list, IndexOf(list, x))

InsertAt(list, i, x) == SubSeq(list, 1, i - 1) \o <<x>> \o SubSeq(list, i, Len(list))

Nth(list, i) == IF i \in DOMAIN list THEN list[i] ELSE 0

RECURSIVE isAliasRecord(_, _)

\* the record of the matcher or of one of its parents is an alias
isAliasRecord(r, m) ==
  IF m = 0 THEN FALSE
  ELSE r.created[m].aliasOf \/ isAliasRecord(r, r.created[m].parent)

\* createRouteRecordMatcher: a new matcher object; its parent learns of it
\* when both are aliases or both are not
createRouteRecordMatcher(r, record, path, aliasOf, parent) ==
  LET m == Len(r.created) + 1
      matcher == [record |-> record, name |-> RouteRecordRaw(record).name,
                  path |-> path, score |-> PathScore(path), parent |-> parent,
                  children |-> <<>>, alias |-> <<>>, aliasOf |-> aliasOf,
                  \* history variables: the rank of the insertMatcher call
                  \* that inserted it, whether addRoute returned its removal
                  inserted |-> 0, handle |-> FALSE]
      r1 == [r EXCEPT !.created = Append(@, matcher)]
  IN IF parent # 0 /\ r.created[parent].aliasOf = aliasOf
     THEN [r1 EXCEPT !.created[parent].children = Append(@, m)]
     ELSE r1

\* the insertMatcher calls made so far
Insertions(r) == Cardinality({m \in DOMAIN r.created : r.created[m].inserted > 0})

\* variant: the matcher goes ahead of the matchers it ties with
insertMatcherAheadOfTies(r, m) ==
  LET better == {i \in DOMAIN r.matchers :
                   comparePathParserScore(r, m, r.matchers[i]) <= 0}
      i == IF better = {} THEN Len(r.matchers) + 1
           ELSE CHOOSE k \in better : \A j \in better : k <= j
  IN [r EXCEPT !.matchers = InsertAt(@, i, m),
               !.created[m].inserted = Insertions(r) + 1,
               !.matcherMap = IF r.created[m].name # NONE /\ ~isAliasRecord(r, m)
                              THEN [@ EXCEPT ![r.created[m].name] = m] ELSE @]

\* variant: the matcher goes to the end of the array
insertMatcherAtEnd(r, m) ==
  [r EXCEPT !.matchers = Append(@, m),
            !.created[m].inserted = Insertions(r) + 1,
            !.matcherMap = IF r.created[m].name # NONE /\ ~isAliasRecord(r, m)
                           THEN [@ EXCEPT ![r.created[m].name] = m] ELSE @]

\* insertMatcher: the matcher goes ahead of the first matcher it outranks
insertMatcher(r, m) ==
  LET better == {i \in DOMAIN r.matchers :
                   comparePathParserScore(r, m, r.matchers[i]) < 0}
      i == IF better = {} THEN Len(r.matchers) + 1
           ELSE CHOOSE k \in better : \A j \in better : k <= j
  IN [r EXCEPT !.matchers = InsertAt(@, i, m),
               !.created[m].inserted = Insertions(r) + 1,
               !.matcherMap = IF r.created[m].name # NONE /\ ~isAliasRecord(r, m)
                              THEN [@ EXCEPT ![r.created[m].name] = m] ELSE @]

\* what removeRoute is given: a name or a matcher
ByName(name) == [isRouteName |-> TRUE, name |-> name, matcher |-> 0]
ByMatcher(m) == [isRouteName |-> FALSE, name |-> NONE, matcher |-> m]

RECURSIVE removeRoute(_, _)
RECURSIVE removeEach(_, _)

\* list.forEach(removeRoute)
removeEach(r, list) ==
  IF list = <<>> THEN r ELSE removeEach(removeRoute(r, ByMatcher(Head(list))), Tail(list))

\* variant: the aliases of the matcher stay
removeRouteKeepsAliases(r, matcherRef) ==
  LET m == IF matcherRef.isRouteName THEN r.matcherMap[matcherRef.name]
           ELSE matcherRef.matcher
  IN IF m = 0 \/ IndexOf(r.matchers, m) = 0 THEN r
     ELSE removeEach([r EXCEPT !.matchers = RemoveAt(@, IndexOf(@, m)),
                               !.matcherMap = IF r.created[m].name # NONE
                                              THEN [@ EXCEPT ![r.created[m].name] = 0]
                                              ELSE @],
                     r.created[m].children)

\* variant: the children of the matcher stay
removeRouteKeepsChildren(r, matcherRef) ==
  LET m == IF matcherRef.isRouteName THEN r.matcherMap[matcherRef.name]
           ELSE matcherRef.matcher
  IN IF m = 0 \/ IndexOf(r.matchers, m) = 0 THEN r
     ELSE removeEach([r EXCEPT !.matchers = RemoveAt(@, IndexOf(@, m)),
                               !.matcherMap = IF r.created[m].name # NONE
                                              THEN [@ EXCEPT ![r.created[m].name] = 0]
                                              ELSE @],
                     r.created[m].alias)

\* variant: a matcher removed by reference keeps its entry in the name map
removeRouteKeepsName(r, matcherRef) ==
  LET m == IF matcherRef.isRouteName THEN r.matcherMap[matcherRef.name]
           ELSE matcherRef.matcher
  IN IF m = 0 THEN r
     ELSE IF ~matcherRef.isRouteName /\ IndexOf(r.matchers, m) = 0 THEN r
     ELSE removeEach(
            removeEach([r EXCEPT !.matchers = SpliceIndexOf(@, m),
                                 !.matcherMap =
                                    IF matcherRef.isRouteName
                                    THEN [@ EXCEPT ![matcherRef.name] = 0] ELSE @],
                       r.created[m].children),
            r.created[m].alias)

\* variant: a matcher that is not in the array is spliced all the same
removeRouteSplicesAbsent(r, matcherRef) ==
  LET m == IF matcherRef.isRouteName THEN r.matcherMap[matcherRef.name]
           ELSE matcherRef.matcher
  IN IF m = 0 THEN r
     ELSE removeEach(
            removeEach([r EXCEPT !.matchers = SpliceIndexOf(@, m),
                                 !.matcherMap = IF r.created[m].name # NONE
                                                THEN [@ EXCEPT ![r.created[m].name] = 0]
                                                ELSE @],
                       IF IndexOf(r.matchers, m) = 0 THEN <<>>
                       ELSE r.created[m].children),
            IF IndexOf(r.matchers, m) = 0 THEN <<>> ELSE r.created[m].alias)

removeRoute(r, matcherRef) ==
  IF matcherRef.isRouteName
  THEN LET m == r.matcherMap[matcherRef.name]
       IN IF m = 0 THEN r
          ELSE LET r1 == [r EXCEPT !.matcherMap[matcherRef.name] = 0,
                                   !.matchers = SpliceIndexOf(@, m)]
               IN removeEach(removeEach(r1, r.created[m].children),
                             r.created[m].alias)
  ELSE LET m == matcherRef.matcher
       IN IF IndexOf(r.matchers, m) = 0 THEN r
          ELSE LET name == r.created[m].name
                   r1 == [r EXCEPT !.matchers = RemoveAt(@, IndexOf(@, m)),
                                   !.matcherMap = IF name # NONE
                                                  THEN [@ EXCEPT ![name] = 0]
                                                  ELSE @]
               IN removeEach(removeEach(r1, r.created[m].children),
                             r.created[m].alias)

RECURSIVE addRoute(_, _, _, _)
RECURSIVE addNormalizedRecords(_, _, _, _, _, _)
RECURSIVE addChildren(_, _, _, _, _)

\* the loop of addRoute over record.children
addChildren(r, children, i, matcher, originalRecord) ==
  IF i > Len(children) THEN r
  ELSE addChildren(
         addRoute(r, children[i], matcher,
                  IF originalRecord # 0
                  THEN Nth(r.created[originalRecord].children, i) ELSE 0),
         children, i + 1, matcher, originalRecord)

\* the loop of addRoute over normalizedRecords, the record itself and then
\* one copy for each alias, from the k-th on; only the first matcher of a
\* root add finds originalRecord undefined, and it is the originalMatcher
addNormalizedRecords(r, record, parent, isRootAdd, originalRecord, k) ==
  LET raw == RouteRecordRaw(record)
      paths == <<raw.path>> \o raw.alias
  IN IF k > Len(paths) THEN r
     ELSE LET path == IF parent # 0 THEN r.created[parent].path \o paths[k]
                      ELSE paths[k]
              matcher == Len(r.created) + 1
              r1 == createRouteRecordMatcher(r, record, path,
                                             k > 1 \/ ~isRootAdd, parent)
              r2 == IF originalRecord # 0
                    THEN [r1 EXCEPT !.created[originalRecord].alias =
                                       Append(@, matcher)]
                    ELSE IF isRootAdd /\ raw.name # NONE /\ ~isAliasRecord(r1, matcher)
                    THEN removeRoute(r1, ByName(raw.name))
                    ELSE r1
              r3 == addChildren(r2, raw.children, 1, matcher, originalRecord)
          IN addNormalizedRecords(
               insertMatcher(r3, matcher), record, parent, isRootAdd,
               IF originalRecord # 0 THEN originalRecord ELSE matcher, k + 1)

addRoute(r, record, parent, originalRecord) ==
  addNormalizedRecords(r, record, parent, originalRecord = 0, originalRecord, 1)

\* variant: the last matcher of the array whose pattern matches
resolveLastMatch(r, path) ==
  LET found == {i \in DOMAIN r.matchers :
                  PathMatches(r.created[r.matchers[i]].path, path)}
  IN IF found = {} THEN 0
     ELSE r.matchers[CHOOSE i \in found : \A j \in found : i >= j]

\* resolve({ path }): the first matcher of the array whose pattern matches,
\* the last record of matched is its record; 0 when none matches
resolve(r, path) ==
  LET found == {i \in DOMAIN r.matchers :
                  PathMatches(r.created[r.matchers[i]].path, path)}
  IN IF found = {} THEN 0
     ELSE r.matchers[CHOOSE i \in found : \A j \in found : i <= j]

RECURSIVE parse(_, _)

\* matcher.parse(path) for a path the pattern accepts: the value of each
\* parameter, as pairs; a repeatable parameter ends the pattern and takes
\* the segments that are left
parse(pattern, path) ==
  IF pattern = <<>> THEN {}
  ELSE LET seg == Head(pattern)
       IN IF seg.static THEN parse(Tail(pattern), Tail(path))
          ELSE IF seg.repeatable THEN {<<seg.text, path>>}
          ELSE IF path = <<>> THEN parse(Tail(pattern), path)
          ELSE {<<seg.text, Head(path)>>} \cup parse(Tail(pattern), Tail(path))

RECURSIVE matchedChain(_, _)

\* the loop of resolve over parentMatcher: each record is put in front of
\* the records met before it
matchedChain(r, parentMatcher) ==
  IF parentMatcher = 0 THEN <<>>
  ELSE Append(matchedChain(r, r.created[parentMatcher].parent), parentMatcher)

\* Object.assign(meta, record.meta), objects as sets of key-value pairs
assign(meta, source) ==
  {p \in meta : \A q \in source : q[1] # p[1]} \cup source

\* record.meta of the record of a matcher
MetaOf(r, m) == RouteRecordRaw(r.created[m].record).meta

RECURSIVE mergeMetaFieldsShallowerWins(_, _)
RECURSIVE mergeMetaFields(_, _)

\* variant: a key keeps the value of the record met first
mergeMetaFieldsShallowerWins(r, matched) ==
  IF matched = <<>> THEN {}
  ELSE assign(MetaOf(r, matched[Len(matched)]),
              mergeMetaFieldsShallowerWins(r, SubSeq(matched, 1, Len(matched) - 1)))

\* matched.reduce((meta, record) => assign(meta, record.meta), {})
mergeMetaFields(r, matched) ==
  IF matched = <<>> THEN {}
  ELSE assign(mergeMetaFields(r, SubSeq(matched, 1, Len(matched) - 1)),
              MetaOf(r, matched[Len(matched)]))

\* matcher.resolve({ path }, currentLocation): what it returns; matched
\* holds the matchers whose records it returns
resolveLocation(r, path) ==
  LET matcher == resolve(r, path)
      matched == matchedChain(r, matcher)
  IN [name |-> IF matcher # 0 THEN r.created[matcher].name ELSE NONE,
      path |-> path,
      params |-> IF matcher # 0 THEN parse(r.created[matcher].path, path) ELSE {},
      matched |-> matched,
      meta |-> mergeMetaFields(r, matched)]

\* the paths the application resolves
Paths ==
  {<<"fixed">>, <<"x">>, <<"users", "5">>, <<"p">>, <<"start">>, <<"x", "y", "z">>}

----------------------------------------------------------------------------
(* The web history (createWebHistory).  window.history is a list of entries *)
(* that all carry a state; history.go(delta) queues a traversal, and the    *)
(* popstate event is delivered later, when the traversal is made.           *)

\* the entries of window.history, each pushed with a state
WebEntries == <<"/a", "/b", "/c">>

\* createWebHistory() on the second entry: currentLocation.value, pauseState;
\* index and tasks are the browser's current entry and queued traversals;
\* event is a history variable: the last popstate event delivered, whether
\* go(delta, false) caused it, whether the listeners were called for it
WebInit ==
  [index |-> 2, location |-> WebEntries[2], pauseState |-> NONE, tasks |-> <<>>,
   event |-> [fired |-> FALSE, silent |-> FALSE, notified |-> FALSE]]

\* pauseListeners()
pauseListeners(w) == [w EXCEPT !.pauseState = w.location]

\* go(delta, triggerListeners): history.go(delta) queues the traversal
webGo(w, delta, triggerListeners) ==
  LET w1 == IF ~triggerListeners THEN pauseListeners(w) ELSE w
  IN [w1 EXCEPT !.tasks = Append(@, [delta |-> delta, silent |-> ~triggerListeners])]

\* popStateHandler({ state }) with a state: the event is ignored when
\* pauseState is the location the history was on, the listeners are called
\* otherwise
popStateHandler(w, to, silent) ==
  LET from == w.location
  IN IF w.pauseState # NONE /\ w.pauseState = from
     THEN [w EXCEPT !.location = to, !.pauseState = NONE,
                    !.event = [fired |-> TRUE, silent |-> silent, notified |-> FALSE]]
     ELSE [w EXCEPT !.location = to,
                    !.event = [fired |-> TRUE, silent |-> silent, notified |-> TRUE]]

\* the browser makes the oldest queued traversal: a move past either end of
\* the entries does nothing, any other move fires popstate on the new entry
traverse(w) ==
  LET task == Head(w.tasks)
      target == w.index + task.delta
      w1 == [w EXCEPT !.tasks = Tail(@)]
  IN IF target \in DOMAIN WebEntries
     THEN popStateHandler([w1 EXCEPT !.index = target], WebEntries[target],
                          task.silent)
     ELSE w1

----------------------------------------------------------------------------
(* The operations *)

\* the identities of the location objects resolved so far
Toks == DOMAIN navs

\* what a guard may answer: allow, refuse, raise, or redirect to a target
Answers ==
  {[is |-> "allow"], [is |-> "aborted"], [is |-> "error"]}
    \cup {[is |-> "redirect", to |-> r] : r \in Targets}

Init ==
  /\ currentRoute = START_LOCATION_NORMALIZED
  /\ pendingLocation = 0
  /\ nextTok = 1
  /\ navs = <<>>
  /\ queue = <<START>>
  /\ position = 0
  /\ ready = FALSE
  /\ beforeGuards = <<>>
  /\ beforeResolveGuards = <<>>
  /\ leaveGuards = [r \in Records |-> 0]
  /\ updateGuards = [r \in Records |-> 0]
  /\ afterGuards = <<>>
  /\ errorHandlers = <<>>
  /\ goCalls = <<>>
  /\ readyHandlers = 0
  /\ matchers = <<>>
  /\ matcherMap = [name \in RouteNames |-> 0]
  /\ created = <<>>
  /\ web = WebInit
  /\ installedApps = 0
  /\ started = FALSE
  /\ removeHistoryListener = FALSE
  /\ last = IdleNav

\* router.push(to) and router.replace(to)
Push(to, replace, force) ==
  /\ Commit(pushWithRedirect(State, to, NONE,
                             [replace |-> replace, force |-> force, call |-> nextTok,
                              count |-> 0, first |-> to, redirected |-> FALSE,
                              hops |-> 0, selfRedirects |-> 0, inThen |-> FALSE]))

\* the guard navigation t waits for settles with the answer
GuardSettle(t, answer) ==
  /\ navs[t].st = "guard"
  /\ Commit(guardSettled([State EXCEPT !.navs[t].settled = navs[t].settled + 1,
                                       !.navs[t].answer = answer.is],
                         t, answer))

\* navigate() of navigation t has resolved: the then-callback chained on it
\* by pushWithRedirect or by the history listener runs
Finalize(t) ==
  /\ navs[t].st = "accepted"
  /\ Commit(navigateAccepted(State, t))

\* router.go(delta), or the user moving in the history: routerHistory.go(delta)
Go(delta) ==
  /\ LET s == HistoryGoSilent(State, delta)
     IN Commit(IF ready THEN historyListener(s, delta) ELSE s)

\* router.go(delta), back() and forward(): the call registers an error
\* handler and an after guard, then moves the history
RouterGo(delta) ==
  /\ LET g == Len(goCalls) + 1
         s0 == [State EXCEPT !.goCalls = Append(@, [promise |-> "pending",
                                                    value |-> NONE, settles |-> 0]),
                             !.errorHandlers = Append(@, g),
                             !.afterGuards = Append(@, g)]
         s == HistoryGoSilent(s0, delta)
     IN Commit(IF ready THEN historyListener(s, delta) ELSE s)

\* router.isReady(): a resolved promise once ready and away from the start
\* location, a waiter added to the list otherwise
IsReady ==
  /\ readyHandlers' = IF ready /\ ~currentRoute.start
                      THEN readyHandlers ELSE readyHandlers + 1
  /\ UNCHANGED <<currentRoute, pendingLocation, nextTok, navs, queue,
                 position, ready, beforeGuards, beforeResolveGuards,
                 leaveGuards, updateGuards, afterGuards, errorHandlers,
                 goCalls, matchers, matcherMap, created, web, installedApps, started,
                 removeHistoryListener,
                 last>>

\* everything but the matcher registry
routerVars ==
  <<currentRoute, pendingLocation, nextTok, navs, queue, position, ready,
    beforeGuards, beforeResolveGuards, leaveGuards, updateGuards, afterGuards,
    errorHandlers, goCalls, readyHandlers, web, installedApps, started,
    removeHistoryListener, last>>

\* matcher.addRoute(record): the caller keeps the function it returns
AddRoute(record) ==
  /\ LET r == addRoute(Registry, record, 0, 0)
         originalMatcher == Len(created) + 1
     IN /\ matchers' = r.matchers
        /\ matcherMap' = r.matcherMap
        /\ created' = [r.created EXCEPT ![originalMatcher].handle = TRUE]
  /\ UNCHANGED routerVars

\* router.addRoute(parentName, route): the record is added under the matcher
\* the name maps to, at the top when the name maps to none
RouterAddRoute(parentName, record) ==
  /\ LET parent == matcherMap[parentName]
         r == addRoute(Registry, record, parent, 0)
         originalMatcher == Len(created) + 1
     IN /\ matchers' = r.matchers
        /\ matcherMap' = r.matcherMap
        /\ created' = [r.created EXCEPT ![originalMatcher].handle = TRUE]
  /\ UNCHANGED routerVars

\* matcher.removeRoute(name)
RemoveRoute(name) ==
  /\ LET r == removeRoute(Registry, ByName(name))
     IN /\ matchers' = r.matchers
        /\ matcherMap' = r.matcherMap
        /\ created' = r.created
  /\ UNCHANGED routerVars

\* router.removeRoute(name): the matcher the name maps to is removed
RouterRemoveRoute(name) ==
  /\ LET recordMatcher == matcherMap[name]
         r == IF recordMatcher # 0
              THEN removeRoute(Registry, ByMatcher(recordMatcher)) ELSE Registry
     IN /\ matchers' = r.matchers
        /\ matcherMap' = r.matcherMap
        /\ created' = r.created
  /\ UNCHANGED routerVars

\* the function an addRoute call returned is called
RemoveAdded(m) ==
  /\ created[m].handle
  /\ LET r == removeRoute(Registry, ByMatcher(m))
     IN /\ matchers' = r.matchers
        /\ matcherMap' = r.matcherMap
        /\ created' = r.created
  /\ UNCHANGED routerVars

\* router.beforeEach(guard)
BeforeEach ==
  /\ Len(beforeGuards) < Len(AppBeforeGuards)
  /\ beforeGuards' = Append(beforeGuards, AppBeforeGuards[Len(beforeGuards) + 1])
  /\ UNCHANGED <<currentRoute, pendingLocation, nextTok, navs, queue,
                 position, ready, beforeResolveGuards, leaveGuards,
                 updateGuards, afterGuards, errorHandlers, goCalls,
                 readyHandlers, matchers, matcherMap, created, web, installedApps, started,
                 removeHistoryListener,
                 last>>

\* router.beforeResolve(guard)
BeforeResolve ==
  /\ Len(beforeResolveGuards) < Len(AppResolveGuards)
  /\ beforeResolveGuards' =
       Append(beforeResolveGuards, AppResolveGuards[Len(beforeResolveGuards) + 1])
  /\ UNCHANGED <<currentRoute, pendingLocation, nextTok, navs, queue,
                 position, ready, beforeGuards, leaveGuards, updateGuards,
                 afterGuards, errorHandlers, goCalls, readyHandlers,
                 matchers, matcherMap, created, web, installedApps, started,
                 removeHistoryListener,
                 last>>

\* onBeforeRouteLeave(guard) in the view mounted for record r (once per mount)
OnBeforeRouteLeave(r) ==
  /\ r \in Range(Matched(currentRoute.path)) \cap RuntimeLeave
  /\ leaveGuards[r] = 0
  /\ leaveGuards' = [leaveGuards EXCEPT ![r] = @ + 1]
  /\ UNCHANGED <<currentRoute, pendingLocation, nextTok, navs, queue,
                 position, ready, beforeGuards, beforeResolveGuards,
                 updateGuards, afterGuards, errorHandlers, goCalls,
                 readyHandlers, matchers, matcherMap, created, web, installedApps, started,
                 removeHistoryListener,
                 last>>

\* onBeforeRouteUpdate(guard) in the view mounted for record r (once per mount)
OnBeforeRouteUpdate(r) ==
  /\ r \in Range(Matched(currentRoute.path)) \cap RuntimeUpdate
  /\ updateGuards[r] = 0
  /\ updateGuards' = [updateGuards EXCEPT ![r] = @ + 1]
  /\ UNCHANGED <<currentRoute, pendingLocation, nextTok, navs, queue,
                 position, ready, beforeGuards, beforeResolveGuards,
                 leaveGuards, afterGuards, errorHandlers, goCalls,
                 readyHandlers, matchers, matcherMap, created, web, installedApps, started,
                 removeHistoryListener,
                 last>>

\* no navigation is in flight
Quiet == \A t \in Toks : ~Live(navs[t])

\* a location object may still be resolved in a behaviour of Spec
MayResolve == nextTok <= MaxNavigations

\* navigations started at any moment, with the guards the views declare
Next ==
  \/ \E to \in Targets, replace \in BOOLEAN : MayResolve /\ Push(to, replace, FALSE)
  \/ \E t \in Toks, answer \in Answers :
       (answer.is = "redirect" => MayResolve) /\ GuardSettle(t, answer)
  \/ \E t \in Toks : Finalize(t)
  \/ \E delta \in Deltas : (ready => MayResolve) /\ Go(delta)

Spec == Init /\ [][Next]_vars

\* a navigation of SpecSeq may start
MayStart == nextTok <= MaxSeqNavigations

\* guards registered at any moment, one navigation at a time
NextSeq ==
  \/ \E to \in Targets, replace \in BOOLEAN, force \in BOOLEAN :
       Quiet /\ MayStart /\ Push(to, replace, force)
  \/ \E t \in Toks, answer \in Answers :
       (answer.is = "redirect" => MayStart) /\ GuardSettle(t, answer)
  \/ \E t \in Toks : Finalize(t)
  \/ \E delta \in Deltas : Quiet /\ MayStart /\ Go(delta)
  \/ BeforeEach
  \/ BeforeResolve
  \/ \E r \in Records : OnBeforeRouteLeave(r)
  \/ \E r \in Records : OnBeforeRouteUpdate(r)

SpecSeq == Init /\ [][NextSeq]_vars

\* the guards of the pending navigation allow, the guards of the navigations
\* it superseded never settle
PendingGuardAllows ==
  \E t \in Toks : t = pendingLocation /\ GuardSettle(t, [is |-> "allow"])

NextBlocked ==
  \/ \E to \in Targets, replace \in BOOLEAN : MayResolve /\ Push(to, replace, FALSE)
  \/ PendingGuardAllows
  \/ \E t \in Toks : Finalize(t)

\* PendingGuardAllows can happen: the pending navigation waits for a guard
GuardPending == \E t \in Toks : t = pendingLocation /\ navs[t].st = "guard"

\* Finalize can happen: a then-callback is queued as a microtask
CallbackQueued == \E t \in Toks : navs[t].st = "accepted"

\* a guard that is going to allow does so, a queued promise callback is run:
\* WF_vars(PendingGuardAllows) and WF_vars(\E t \in Toks : Finalize(t)), each
\* written out as "infinitely often disabled or infinitely often taken" with
\* the guard of the action in the place of ENABLED
SpecBlocked ==
  /\ Init
  /\ [][NextBlocked]_vars
  /\ ([]<>~GuardPending \/ []<><<PendingGuardAllows>>_vars)
  /\ ([]<>~CallbackQueued \/ []<><<\E t \in Toks : Finalize(t)>>_vars)

\* one navigation at a time, long chains of redirects, targets whose record
\* redirects to itself
NextChain ==
  \/ \E to \in Targets \cup LoopTargets :
       Quiet /\ nextTok <= MaxChain /\ Push(to, FALSE, FALSE)
  \/ \E t \in Toks, answer \in Answers :
       (answer.is = "redirect" => nextTok <= MaxChain) /\ GuardSettle(t, answer)
  \/ \E t \in Toks : Finalize(t)

SpecChain == Init /\ [][NextChain]_vars

\* go() calls at any moment, push() calls once the navigations have settled
NextGo ==
  \/ \E to \in Targets : Quiet /\ MayResolve /\ Push(to, FALSE, FALSE)
  \/ \E t \in Toks, answer \in Answers :
       (answer.is = "redirect" => MayResolve) /\ GuardSettle(t, answer)
  \/ \E t \in Toks : Finalize(t)
  \/ \E delta \in Deltas :
       (ready => MayResolve) /\ Len(goCalls) < MaxGoCalls /\ RouterGo(delta)

SpecGo == Init /\ [][NextGo]_vars

\* isReady() calls at any moment, among navigations started at any moment
NextReady ==
  \/ \E to \in Targets, replace \in BOOLEAN : MayResolve /\ Push(to, replace, FALSE)
  \/ \E t \in Toks, answer \in Answers :
       (answer.is = "redirect" => MayResolve) /\ GuardSettle(t, answer)
  \/ \E t \in Toks : Finalize(t)
  \/ readyHandlers < MaxWaiters /\ IsReady

SpecReady == Init /\ [][NextReady]_vars

\* routes added and removed in any order
NextMatcher ==
  \/ \E record \in RouteRecords :
       Len(created) + Size(record) <= MaxMatchers /\ AddRoute(record)
  \/ \E name \in RouteNames : RemoveRoute(name)
  \/ \E name \in RouteNames : RouterRemoveRoute(name)
  \/ \E m \in DOMAIN created : RemoveAdded(m)

SpecMatcher == Init /\ [][NextMatcher]_vars

\* an application that registers nested routes, adds routes under registered
\* parents, and removes routes by name and by the functions addRoute returned
NextRegistry ==
  \/ \E record \in NestedRecords :
       Len(created) + Size(record) <= MaxMatchers /\ AddRoute(record)
  \/ \E parentName \in RouteNames, record \in ChildRecords :
       Len(created) + Size(record) <= MaxMatchers
         /\ RouterAddRoute(parentName, record)
  \/ \E name \in RouteNames : RemoveRoute(name)
  \/ \E name \in RouteNames : RouterRemoveRoute(name)
  \/ \E m \in DOMAIN created : RemoveAdded(m)

SpecRegistry == Init /\ [][NextRegistry]_vars

\* everything but the web history
notWeb ==
  <<currentRoute, pendingLocation, nextTok, navs, queue, position, ready,
    beforeGuards, beforeResolveGuards, leaveGuards, updateGuards, afterGuards,
    errorHandlers, goCalls, readyHandlers, matchers, matcherMap, created,
    installedApps, started, removeHistoryListener, last>>

\* routerHistory.go(delta, triggerListeners) of the web history; the user
\* pressing back or forward has the effect of go(delta)
WebGo(delta, triggerListeners) ==
  /\ Len(web.tasks) < MaxTraversals
  /\ web' = webGo(web, delta, triggerListeners)
  /\ UNCHANGED notWeb

\* the browser makes a queued traversal and delivers its popstate event
PopState ==
  /\ web.tasks # <<>>
  /\ web' = traverse(web)
  /\ UNCHANGED notWeb

NextWeb ==
  \/ \E delta \in Deltas, triggerListeners \in BOOLEAN :
       WebGo(delta, triggerListeners)
  \/ PopState

SpecWeb == Init /\ [][NextWeb]_vars

\* app.use(router) in the browser: the first installation starts the
\* initial navigation to the location of the history, the URL of the page
Install(to) ==
  /\ installedApps < MaxApps
  /\ installedApps' = installedApps + 1
  /\ IF ~started /\ currentRoute.start
     THEN /\ started' = TRUE
          /\ CommitRouter(pushWithRedirect(
                State, to, NONE,
                [replace |-> FALSE, force |-> FALSE, call |-> nextTok,
                 count |-> 0, first |-> to, redirected |-> FALSE,
                 hops |-> 0, selfRedirects |-> 0, inThen |-> FALSE]))
          /\ UNCHANGED <<matchers, matcherMap, created, web>>
     ELSE UNCHANGED <<currentRoute, pendingLocation, nextTok, navs, queue,
                      position, ready, beforeGuards, beforeResolveGuards,
                      leaveGuards, updateGuards, afterGuards, errorHandlers,
                      goCalls, readyHandlers, matchers, matcherMap, created, web,
                      started, removeHistoryListener, last>>

\* app.unmount(): when the last app goes, removeHistoryListener() is called,
\* the current location is reset and started and ready are cleared; calling
\* removeHistoryListener raises when setupListeners() never assigned it
Unmount ==
  /\ installedApps > 0
  /\ installedApps' = installedApps - 1
  /\ IF installedApps - 1 < 1 /\ removeHistoryListener
     THEN /\ currentRoute' = START_LOCATION_NORMALIZED
          /\ started' = FALSE
          /\ ready' = FALSE
          /\ navs' = [t \in DOMAIN navs |->
                        IF Live(navs[t]) THEN [navs[t] EXCEPT !.unmounted = TRUE]
                        ELSE navs[t]]
          /\ UNCHANGED <<pendingLocation, nextTok, queue, position, beforeGuards,
                         beforeResolveGuards, leaveGuards, updateGuards,
                         afterGuards, errorHandlers, goCalls, readyHandlers,
                         matchers, matcherMap, created, web,
                         removeHistoryListener, last>>
     ELSE UNCHANGED <<currentRoute, pendingLocation, nextTok, navs, queue,
                      position, ready, beforeGuards, beforeResolveGuards,
                      leaveGuards, updateGuards, afterGuards, errorHandlers,
                      goCalls, readyHandlers, matchers, matcherMap, created, web,
                      started, removeHistoryListener, last>>

\* apps installed and unmounted while the router navigates
NextApp ==
  \/ \E to \in Targets : MayResolve /\ Install(to)
  \/ Unmount
  \/ \E to \in Targets : Quiet /\ MayResolve /\ Push(to, FALSE, FALSE)
  \/ \E t \in Toks, answer \in Answers :
       (answer.is = "redirect" => MayResolve) /\ GuardSettle(t, answer)
  \/ \E t \in Toks : Finalize(t)

SpecApp == Init /\ [][NextApp]_vars

\* the moves asked of a memory history that is used on its own
MemoryDeltas == {-2, -1, 1, 2}

\* routerHistory.push(to) of the memory history
MemoryPush(to) ==
  /\ Len(queue) < MaxEntries
  /\ Commit(HistoryPush(State, to))

\* routerHistory.replace(to) of the memory history
MemoryReplace(to) == Commit(HistoryReplace(State, to))

\* routerHistory.go(delta) of the memory history, no listener registered
MemoryGo(delta) == Commit(HistoryGoSilent(State, delta))

\* a memory history driven directly
NextMemory ==
  \/ \E to \in Targets : MemoryPush(to)
  \/ \E to \in Targets : MemoryReplace(to)
  \/ \E delta \in MemoryDeltas : MemoryGo(delta)

SpecMemory == Init /\ [][NextMemory]_vars

\* an application that also pushes locations resolve() cannot resolve
NextResolve ==
  \/ \E to \in Targets \cup Unresolvable, replace \in BOOLEAN :
       nextTok <= MaxSeqNavigations /\ Push(to, replace, FALSE)
  \/ \E t \in Toks, answer \in Answers :
       (answer.is = "redirect" => nextTok <= MaxSeqNavigations)
         /\ GuardSettle(t, answer)
  \/ \E t \in Toks : Finalize(t)

SpecResolve == Init /\ [][NextResolve]_vars

----------------------------------------------------------------------------
(* Properties of concurrent navigations *)

\* the outcomes with which a navigation fails: a failure returned to the
\* caller (aborted, cancelled, duplicated) or a rejection (error, infinite)
FailedOutcomes == {"aborted", "cancelled", "duplicated", "error", "infinite"}

\* a navigation settles in the step
Settles ==
  \E t \in DOMAIN navs' :
    (t \in DOMAIN navs => navs[t].st # "done") /\ navs'[t].st = "done"

\* a navigation started by a history move settles in the step
PopSettles == \E t \in Toks : navs[t].kind = "pop" /\ navs'[t].st = "done"

\* C1: a navigation that was still running its guard phases when a newer
\* navigation (push, replace or history move) started never calls History
\* push or replace and never becomes the current location, whatever the order
\* in which the guards of the two navigations settle.
SupersededNeverFinalizes ==
  /\ \A t \in Toks :
       Live(navs[t]) => ~navs[t].finalized /\ navs[t].persisted = NONE
  /\ last.superseded => ~last.finalized /\ last.persisted = NONE

\* a superseded push passed all its phases and was stopped by finalization
SupersededStoppedAtFinalize ==
  /\ last.superseded
  /\ last.kind = "push"
  /\ last.phase = Len(PhaseOrder)
  /\ last.outcome = "cancelled"
  /\ ~last.finalized

\* C2: the call that started a navigation which a newer navigation superseded
\* while it was waiting on a guard settles with a Cancelled failure, whether
\* the guard then allows, refuses or redirects.
SupersededSettlesCancelled ==
  last.st = "done" /\ last.superseded /\ last.kind = "push"
    /\ last.answer \in {NONE, "allow", "aborted", "redirect"}
  => last.outcome = "cancelled"

\* C3: a push or replace that ends Aborted, Cancelled or Duplicated, or that
\* rejects, leaves the current location and the history as they were; only a
\* navigation that passed the six phases is finalized, and it is confirmed.
FailedPushChangesNothing ==
  /\ [](last.finalized =>
          last.phase = Len(PhaseOrder) /\ last.outcome = "confirmed")
  /\ [](last.outcome \in FailedOutcomes =>
          ~last.finalized /\ last.persisted = NONE)
  /\ [][ Settles /\ ~PopSettles /\ last'.kind = "push"
           /\ last'.outcome \in FailedOutcomes
         => /\ currentRoute' = currentRoute
            /\ queue' = queue
            /\ position' = position ]_vars

\* a push was refused by a guard of its fifth phase, after a first navigation
\* had been confirmed
PushAbortedLate ==
  /\ last.kind = "push"
  /\ last.outcome = "aborted"
  /\ last.phase = 5
  /\ currentRoute.path = "/a"
  /\ Len(queue) = 1

----------------------------------------------------------------------------
(* Properties of the guard phases *)

\* the place of a guard's phase in the documented order: leave, global
\* before, update, beforeEnter, component enter, global resolve
PhaseRank(kind) ==
  CASE kind \in {"beforeRouteLeave", "leaveGuards"} -> 1
    [] kind = "beforeEach" -> 2
    [] kind \in {"beforeRouteUpdate", "updateGuards"} -> 3
    [] kind = "beforeEnter" -> 4
    [] kind = "beforeRouteEnter" -> 5
    [] kind = "beforeResolve" -> 6

\* the guards of the trace that are of one of the kinds
OfKinds(trace, kinds) ==
  LET isOfKinds(g) == g.kind \in kinds IN SelectSeq(trace, isOfKinds)

\* guards are invoked one at a time: all the guards invoked have settled,
\* but the one the navigation waits for
OneAtATime(n) ==
  Len(n.trace) = n.settled + (IF n.st = "guard" THEN 1 ELSE 0)

\* C4: the guards of a navigation are invoked phase by phase in the order
\* leave, global before, update, beforeEnter, component enter, global
\* resolve, and a guard is invoked only when all the guards invoked before
\* it, those of the preceding phases included, have settled.
PhasesInOrder ==
  \A t \in Toks :
    Live(navs[t]) =>
      /\ \A i, j \in DOMAIN navs[t].trace :
           i < j => PhaseRank(navs[t].trace[i].kind) <= PhaseRank(navs[t].trace[j].kind)
      /\ navs[t].st = "guard" =>
           PhaseRank(navs[t].trace[Len(navs[t].trace)].kind) = navs[t].phase
      /\ OneAtATime(navs[t])

\* a navigation has invoked guards of four phases
GuardsOfFourPhases ==
  \E t \in Toks :
    /\ Live(navs[t])
    /\ Cardinality({PhaseRank(g.kind) : g \in Range(navs[t].trace)}) >= 4

\* C5: once a newer navigation has started, no further guard of the
\* superseded navigation is invoked, neither of the phase it is in nor of a
\* later phase.
NoGuardOnceSuperseded ==
  [][ \A t \in Toks :
        navs[t].st = "guard" /\ navs[t].superseded /\ navs'[t].st = "guard"
        => navs'[t].trace = navs[t].trace ]_vars

\* C6: when a guard refuses, the navigation invokes no further guard, is not
\* finalized and settles with an Aborted failure.
RefusalAborts ==
  /\ \A t \in Toks : Live(navs[t]) => navs[t].answer \in {NONE, "allow"}
  /\ last.answer = "aborted" =>
       last.outcome = "aborted" /\ ~last.finalized /\ last.persisted = NONE

\* the first push was refused by the beforeEnter guard of its target
PushRefused ==
  /\ last.kind = "push"
  /\ last.answer = "aborted"
  /\ last.outcome = "aborted"
  /\ last.phase = 4
  /\ currentRoute.start

\* C7: a push or replace to the current location without force settles
\* Duplicated in the call itself, before any phase and so with no guard
\* invoked, with no History call and the current location unchanged; with force it is never Duplicated, its
\* phases run.
DuplicatedShortCircuits ==
  /\ [](\A t \in Toks :
          Live(navs[t]) /\ navs[t].kind = "push" =>
            navs[t].force \/ ~isSameRouteLocation(navs[t].from.path, navs[t].to))
  /\ [](last.outcome = "duplicated" =>
          /\ ~last.force
          /\ last.phase = 0
          /\ ~last.finalized
          /\ last.persisted = NONE)
  /\ [][ Settles /\ ~PopSettles /\ last'.outcome = "duplicated"
         => /\ currentRoute' = currentRoute
            /\ queue' = queue
            /\ position' = position ]_vars

\* a push to the current location settled Duplicated
PushedCurrentLocation ==
  /\ last.kind = "push"
  /\ last.outcome = "duplicated"
  /\ ~currentRoute.start
  /\ Quiet

\* the names of the global guards of the kind in the trace
GlobalNames(trace, kind) ==
  [i \in 1..Len(OfKinds(trace, {kind})) |-> OfKinds(trace, {kind})[i].n]

IsPrefix(a, b) == Len(a) <= Len(b) /\ a = SubSeq(b, 1, Len(a))

\* C8: the guards of a phase are invoked one at a time, a guard only after
\* the one before it has settled; the global before guards and the global
\* resolve guards are invoked in the order of their registration.
GlobalGuardsInRegistrationOrder ==
  \A t \in Toks :
    Live(navs[t]) =>
      /\ IsPrefix(GlobalNames(navs[t].trace, "beforeEach"), beforeGuards)
      /\ IsPrefix(GlobalNames(navs[t].trace, "beforeResolve"), beforeResolveGuards)
      /\ OneAtATime(navs[t])
      /\ navs[t].idx <= Len(navs[t].queue)

\* a navigation has invoked two global before guards and a global resolve guard
TwoGlobalGuardsInvoked ==
  \E t \in Toks :
    /\ Live(navs[t])
    /\ Len(GlobalNames(navs[t].trace, "beforeEach")) = 2
    /\ Len(GlobalNames(navs[t].trace, "beforeResolve")) >= 1

\* the depth of a record in the matched chain of its location
Depth(r) ==
  CHOOSE i \in 1..2 :
    \E path \in Targets : i \in DOMAIN Matched(path) /\ Matched(path)[i] = r

\* C9: leave guards run for the records of from that are not in to, from
\* the leaf to the root, the ones the components declare and the ones
\* registered on the records at run time alike.
LeaveGuardsLeafToRoot ==
  \A t \in Toks :
    Live(navs[t]) =>
      \A kind \in {"beforeRouteLeave", "leaveGuards"} :
        LET leave == OfKinds(navs[t].trace, {kind})
        IN /\ \A i \in DOMAIN leave :
                /\ leave[i].rec \in Range(Matched(navs[t].from.path))
                /\ leave[i].rec \notin Range(Matched(navs[t].to))
           /\ \A i, j \in DOMAIN leave :
                i < j => Depth(leave[i].rec) >= Depth(leave[j].rec)

\* the redirect option of the leaf record the path resolves to
LeafRedirect(path) ==
  IF Matched(path) = <<>> THEN NONE ELSE Redirect(Matched(path)[Len(Matched(path))])

\* C10: no navigation runs guards for a target whose leaf record redirects;
\* the location reached after redirects carries as redirectedFrom the
\* location first requested, and none when no redirect took place.
RedirectedFromIsFirstRequest ==
  /\ [](\A t \in Toks :
          Live(navs[t]) =>
            /\ LeafRedirect(navs[t].to) = NONE
            /\ navs[t].redirectedFrom =
                 (IF navs[t].redirected THEN navs[t].first ELSE NONE))
  /\ [][ \A t \in Toks :
           navs[t].st = "accepted" /\ navs'[t].st = "done" /\ last'.finalized
           => /\ currentRoute'.path = navs[t].to
              /\ currentRoute'.redirectedFrom =
                   (IF navs[t].redirected THEN navs[t].first ELSE NONE) ]_vars

\* the target of two chained record redirects is the current location
ReachedThroughTwoRedirects ==
  /\ currentRoute.path = "/a"
  /\ currentRoute.redirectedFrom = "/r1"
  /\ last.outcome = "confirmed"

----------------------------------------------------------------------------
(* Properties of redirects without end *)

\* C11: a chain of record redirects is cut off with the InfiniteRedirect
\* failure once more than 10 of them are chained: the calls nested by the
\* redirects never exhaust the call stack.
RecordRedirectsCutOff == last.outcome # "overflow"

----------------------------------------------------------------------------
(* Properties of finalization *)

\* navigation t is confirmed in the step
Confirmed(t) ==
  navs[t].st = "accepted" /\ navs'[t].st = "done" /\ last'.outcome = "confirmed"

\* C13: a confirmed push or replace makes one History call with the path of
\* its target, replace when the caller asked for it or when the navigation
\* left the start location, push otherwise; a confirmed navigation that a
\* history move started makes no History call.
OneHistoryCallWhenConfirmed ==
  [][ \A t \in Toks :
        Confirmed(t) =>
          IF navs[t].kind = "push"
          THEN /\ last'.persisted =
                    (IF navs[t].replace \/ navs[t].from.start
                     THEN "replace" ELSE "push")
               /\ queue'[position' + 1] = navs[t].to
               /\ position' = (IF last'.persisted = "push" THEN position + 1
                                                           ELSE position)
               /\ SubSeq(queue', 1, position') = SubSeq(queue, 1, position')
               /\ Len(queue') = position' + 1
          ELSE /\ last'.persisted = NONE
               /\ queue' = queue
               /\ position' = position ]_vars

\* a second navigation was confirmed and pushed on the history
SecondNavigationPushed ==
  /\ last.outcome = "confirmed"
  /\ last.persisted = "push"
  /\ position = 1
  /\ queue[1] # START

----------------------------------------------------------------------------
(* Properties of failures and errors *)

\* C14: the promise of a push or replace that ends Aborted, Cancelled or
\* Duplicated resolves with the failure, it never rejects, and the error
\* handlers are not invoked for it.
FailuresAreValues ==
  /\ last.kind = "push" /\ last.answer = "aborted" => last.outcome = "aborted"
  /\ last.kind = "push" /\ last.outcome \in {"aborted", "cancelled", "duplicated"}
     => last.promise = "resolved" /\ ~last.handled

\* a push superseded by another one was refused by its guard: its promise
\* resolved with the Aborted failure
AbortedResolved ==
  /\ last.kind = "push"
  /\ last.outcome = "aborted"
  /\ last.superseded
  /\ last.promise = "resolved"

\* C15: when a navigation fails with another error (raised by a guard, or
\* the infinite-redirect error) the error handlers are invoked with it and
\* the promise of the call rejects.
ErrorsReachHandlers ==
  last.outcome \in {"error", "infinite"}
  => last.handled /\ (last.kind = "push" => last.promise = "rejected")

----------------------------------------------------------------------------
(* Properties of a guard that never settles *)

\* navigation t waits on a guard and a newer navigation has started
Blocked(t) == t \in Toks /\ navs[t].st = "guard" /\ navs[t].superseded

\* C16: while a navigation stays blocked on its guard, a navigation started
\* after it whose guards allow runs its phases and is confirmed, unless a
\* newer one supersedes it: its target becomes the current location and the
\* location of the History; the blocked navigation does not move and is not
\* finalized.
BlockedGuardBlocksNobody ==
  /\ \A t \in 1..MaxNavigations :
       (t \in Toks /\ pendingLocation = t /\ Live(navs[t])
          /\ \E u \in Toks : Blocked(u))
       ~> (\/ pendingLocation # t
           \/ /\ navs[t].st = "done"
              /\ last.outcome = "confirmed"
              /\ last.finalized
              /\ queue[position + 1] = currentRoute.path)
  /\ [][ \A t \in Toks : Confirmed(t) => currentRoute'.path = navs[t].to ]_vars
  /\ [][ \A t \in Toks : Blocked(t) => navs'[t] = navs[t] ]_vars

\* the second navigation is confirmed while the first one is still blocked
ConfirmedPastBlocked ==
  /\ nextTok = 3
  /\ Blocked(1)
  /\ navs[2].st = "done"
  /\ last.outcome = "confirmed"
  /\ last.persisted = "replace"
  /\ queue[position + 1] = currentRoute.path

\* the promise of a go() call once the after guards, invoked with the failure
\* of the navigation that settled last, or the error handlers have run
GoSettled(l) ==
  IF l.after
  THEN [promise |-> "resolved",
        value |-> IF l.outcome = "confirmed" THEN NONE ELSE l.outcome,
        settles |-> 1]
  ELSE [promise |-> "rejected", value |-> "error", settles |-> 1]

\* C17: the promise of a go() call stays pending until the first step after
\* the call in which the after guards or the error handlers are invoked; that
\* step resolves it with the failure given to the after guards (nothing for a
\* confirmed navigation) or rejects it with the error, and nothing changes it
\* afterwards; the after guard and the error handler of a call are in their
\* lists exactly while its promise is pending.
GoSettlesOnFirstSignal ==
  /\ [][ \A g \in DOMAIN goCalls :
           goCalls'[g] =
             IF goCalls[g].promise = "pending" /\ Settles
                  /\ (last'.after \/ last'.handled)
             THEN GoSettled(last')
             ELSE goCalls[g] ]_vars
  /\ [](\A g \in DOMAIN goCalls :
          /\ goCalls[g].promise = "pending" <=> g \in Range(afterGuards)
          /\ goCalls[g].promise = "pending" <=> g \in Range(errorHandlers))

\* a go() call started a navigation that a guard refused: its promise is
\* resolved with the failure and its handlers are gone
GoCallResolvedWithFailure ==
  /\ Len(goCalls) = 1
  /\ goCalls[1].promise = "resolved"
  /\ goCalls[1].value = "aborted"
  /\ last.kind = "pop"
  /\ last.outcome = "aborted"
  /\ afterGuards = <<>>
  /\ errorHandlers = <<>>

\* C18: once a navigation has been confirmed (the current location is not
\* the start location any more) no isReady() waiter is left in the list.
NoWaiterOnceConfirmed == ~currentRoute.start => readyHandlers = 0

----------------------------------------------------------------------------
(* Properties of the matcher registry *)

\* C19: the array of matchers is sorted: no matcher comes after a matcher it
\* outranks, and of two matchers that compare equal the one inserted first
\* comes first.
MatchersRanked ==
  \A i, j \in DOMAIN matchers :
    i < j =>
      /\ comparePathParserScore(Registry, matchers[i], matchers[j]) <= 0
      /\ comparePathParserScore(Registry, matchers[i], matchers[j]) = 0
           => created[matchers[i]].inserted < created[matchers[j]].inserted

\* after a removal the array holds two matchers that tie, behind a matcher
\* that was inserted after them
TiesKeptInOrder ==
  /\ Len(created) > Len(matchers)
  /\ \E i, j, k \in DOMAIN matchers :
       /\ i < j /\ j < k
       /\ comparePathParserScore(Registry, matchers[j], matchers[k]) = 0
       /\ created[matchers[i]].inserted > created[matchers[k]].inserted

\* the record is registered: one of its matchers is in the array
Registered(record) ==
  \E i \in DOMAIN matchers : created[matchers[i]].record = record

\* C20: while /fixed and /:a are both registered, the path /fixed resolves to
\* the record of /fixed.
StaticOutranksParam ==
  Registered("/fixed") /\ Registered("/:a") =>
    /\ resolve(Registry, <<"fixed">>) # 0
    /\ created[resolve(Registry, <<"fixed">>)].record = "/fixed"

\* /:a was registered before /fixed and a route has been removed since
StaticResolvedThoughAddedLast ==
  /\ Len(created) > Len(matchers)
  /\ \E i, j \in DOMAIN matchers :
       /\ created[matchers[i]].record = "/fixed"
       /\ created[matchers[j]].record = "/:a"
       /\ created[matchers[j]].inserted < created[matchers[i]].inserted
  /\ created[resolve(Registry, <<"fixed">>)].record = "/fixed"

RECURSIVE Owned(_, _)

\* the matchers a matcher owns: its children and aliases, and theirs
Owned(c, m) ==
  LET direct == Range(c[m].children) \cup Range(c[m].alias)
  IN direct \cup UNION {Owned(c, o) : o \in direct}

\* the matcher is neither in the array nor in the name map
Unregistered(m) ==
  m \notin Range(matchers') /\ \A name \in RouteNames : matcherMap'[name] # m

\* the step is an addRoute(record): the first matcher it creates is the
\* matcher of the record
Added(record) ==
  Len(created') > Len(created) /\ created'[Len(created) + 1].record = record

\* C21: addRoute of a record whose name is registered removes the matcher
\* the name maps to and every matcher it owns from the array and from the
\* name map; the name then maps to the new matcher, which is in the array.
NamedRouteReplaced ==
  [][ \A record \in RouteRecords :
        LET name == RouteRecordRaw(record).name
        IN (name # NONE /\ matcherMap[name] # 0 /\ Added(record)) =>
             /\ \A m \in {matcherMap[name]} \cup Owned(created, matcherMap[name]) :
                  Unregistered(m)
             /\ matcherMap'[name] = Len(created) + 1
             /\ matcherMap'[name] \in Range(matchers') ]_vars

\* /p was registered twice: the second parent and its child are in the
\* array, the first two are not
ParentAndChildReplaced ==
  /\ Len(created) = 4
  /\ \A m \in DOMAIN created : created[m].record \in {"/p", ""}
  /\ Range(matchers) = {3, 4}
  /\ matcherMap["p"] = 3

\* C22: removeRoute, given a name or a matcher, and router.removeRoute
\* remove the matcher and every matcher it owns from the array and from the
\* name map.
RemovalCascades ==
  /\ [][ \A name \in RouteNames :
           (/\ matcherMap[name] # 0
            /\ matchers' # matchers
            /\ Len(created') = Len(created)
            /\ RemoveRoute(name) \/ RouterRemoveRoute(name)) =>
             \A m \in {matcherMap[name]} \cup Owned(created, matcherMap[name]) :
               Unregistered(m) ]_vars
  /\ [][ \A o \in DOMAIN created :
           (/\ matchers' # matchers
            /\ Len(created') = Len(created)
            /\ RemoveAdded(o)) =>
             \A m \in {o} \cup Owned(created, o) : Unregistered(m) ]_vars

\* /home and its alias were registered and have been removed by name, a
\* route registered next to them is still there
HomeAndAliasRemoved ==
  /\ \E m \in DOMAIN created :
       /\ created[m].record = "/home"
       /\ created[m].alias # <<>>
       /\ \A o \in {m} \cup Owned(created, m) : o \notin Range(matchers)
  /\ matcherMap["home"] = 0
  /\ matchers # <<>>

\* the matcher at index i of the array accepts the path
Accepts(i, path) == PathMatches(created[matchers[i]].path, path)

\* C23: resolving a path that no matcher of the array accepts returns a
\* location with the path, no name, no parameters and an empty matched
\* chain; when a matcher accepts the path, the location is that of the
\* first accepting matcher of the array: its record ends the matched chain
\* and its name is the name of the location.
UnmatchedPathResolves ==
  \A path \in Paths :
    LET location == resolveLocation(Registry, path)
    IN /\ location.path = path
       /\ (\A i \in DOMAIN matchers : ~Accepts(i, path)) =>
            /\ location.name = NONE
            /\ location.params = {}
            /\ location.matched = <<>>
            /\ location.meta = {}
       /\ \A i \in DOMAIN matchers :
            (Accepts(i, path) /\ \A j \in 1..(i - 1) : ~Accepts(j, path)) =>
              /\ location.matched # <<>>
              /\ location.matched[Len(location.matched)] = matchers[i]
              /\ location.name = created[matchers[i]].name

\* three routes are registered: /fixed is accepted by two of them, /users/5
\* resolves to the named one, no matcher accepts /x/y/z
NoMatcherForSomePath ==
  /\ Len(matchers) = 3
  /\ \A i \in DOMAIN matchers : ~Accepts(i, <<"x", "y", "z">>)
  /\ resolveLocation(Registry, <<"x", "y", "z">>).matched = <<>>
  /\ Cardinality({i \in DOMAIN matchers : Accepts(i, <<"fixed">>)}) = 2
  /\ resolveLocation(Registry, <<"users", "5">>).name = "user"
  /\ resolveLocation(Registry, <<"users", "5">>).params = {<<"id", "5">>}

\* C24: the matched chain of a resolved location starts at a matcher without
\* parent, each next matcher is a child of the one before, and the last is
\* the resolved matcher; the merged meta has, for every key a record of the
\* chain declares, the value of the deepest record declaring it, and no
\* other key.
MatchedRootToLeaf ==
  \A path \in Paths :
    LET location == resolveLocation(Registry, path)
        matched == location.matched
        declares(i, key) == \E p \in MetaOf(Registry, matched[i]) : p[1] = key
    IN /\ matched # <<>> =>
            /\ created[matched[1]].parent = 0
            /\ matched[Len(matched)] = resolve(Registry, path)
            /\ \A i \in 2..Len(matched) :
                 created[matched[i]].parent = matched[i - 1]
       /\ \A i \in DOMAIN matched :
            \A p \in MetaOf(Registry, matched[i]) :
              (\A j \in (i + 1)..Len(matched) : ~declares(j, p[1])) =>
                p \in location.meta
       /\ \A p \in location.meta :
            \E i \in DOMAIN matched :
              /\ p \in MetaOf(Registry, matched[i])
              /\ \A j \in (i + 1)..Len(matched) : ~declares(j, p[1])

\* /p resolves to its child of the same path: the chain is parent, child,
\* the title is the child's, the layout the parent's
ChildMetaOverridesParent ==
  LET location == resolveLocation(Registry, <<"p">>)
  IN /\ Len(location.matched) = 2
     /\ created[location.matched[1]].record = "/p"
     /\ created[location.matched[2]].record = ""
     /\ location.meta = {<<"layout", "wide">>, <<"title", "child">>}

----------------------------------------------------------------------------
(* Properties of redirects, history moves and after guards *)

\* C25: when a navigation that has been superseded settles on the answer of
\* one of its guards, whatever the answer, the pending location stays the one
\* of the newer navigation and the current location is not changed.
SupersededRedirectChangesNothing ==
  [][ \A t \in Toks :
        (navs[t].st = "guard" /\ navs[t].superseded /\ navs'[t].st = "done") =>
          /\ pendingLocation' = pendingLocation
          /\ currentRoute' = currentRoute ]_vars

\* C26: once a navigation has been confirmed, whenever no navigation is in
\* flight the entry the memory history is on, unless it is still the initial
\* entry, is the path of the current location.
HistoryOnCurrentLocation ==
  (Quiet /\ ~currentRoute.start /\ queue[position + 1] # START) =>
    queue[position + 1] = currentRoute.path

\* C27: the redirects guards ask for in the course of one push() call are
\* followed at most 11 times, whatever their targets.  Calls are made one
\* at a time here, so the locations resolved since the call are those of its
\* redirects.
GuardRedirectsCutOff ==
  \A t \in Toks :
    (Live(navs[t]) /\ navs[t].kind = "push") =>
      t - navs[t].call <= MaxRedirects + 1

\* C28: a navigation that settles confirmed, Aborted, Cancelled or
\* Duplicated makes one call of triggerAfterEach, which invokes every after
\* guard of the list once with the failure (nothing when confirmed); a
\* navigation that is redirected or ends with an error makes no call, and no
\* after guard is invoked.
AfterGuardsOncePerNavigation ==
  [][ Settles =>
        IF last'.outcome \in {"confirmed", "aborted", "cancelled", "duplicated"}
        THEN /\ last'.afterCalls = 1
             /\ \A g \in Range(afterGuards) :
                  goCalls'[g] =
                    [promise |-> "resolved",
                     value |-> IF last'.outcome = "confirmed" THEN NONE
                               ELSE last'.outcome,
                     settles |-> 1]
        ELSE /\ last'.afterCalls = 0
             /\ \A g \in Range(afterGuards) : goCalls'[g].promise # "resolved" ]_vars

\* two after guards were registered when a guard aborted a push(): one call
\* of triggerAfterEach gave the failure to both
AfterGuardsGivenAborted ==
  /\ last.kind = "push"
  /\ last.outcome = "aborted"
  /\ last.afterCalls = 1
  /\ Len(goCalls) = 2
  /\ \A g \in DOMAIN goCalls : goCalls[g].value = "aborted" /\ goCalls[g].settles = 1

\* the place of a step among the effects of the last navigation, 0 when the
\* step was not made
StepAt(name) ==
  IF \E i \in DOMAIN last.steps : last.steps[i] = name
  THEN CHOOSE i \in DOMAIN last.steps : last.steps[i] = name
  ELSE 0

\* the first step, when both were made, came ahead of the second
StepBefore(a, b) == (StepAt(a) > 0 /\ StepAt(b) > 0) => StepAt(a) < StepAt(b)

\* C29: on confirmation the current location is replaced, then the History
\* persists the URL, then the scroll hook is invoked, then the after guards,
\* and only then the isReady() waiters are resolved.
ConfirmationStepsInOrder ==
  last.outcome = "confirmed" =>
    /\ StepBefore("currentRoute", "routerHistory")
    /\ StepBefore("routerHistory", "handleScroll")
    /\ StepBefore("handleScroll", "afterEach")
    /\ StepBefore("afterEach", "readyHandlers")

\* C30: the promise of every go(delta) call settles once the guards have
\* settled: when no navigation is in flight no step of the router is due, so
\* no promise of a go() call is pending then.
GoPromiseSettledWhenQuiet ==
  Quiet => \A g \in DOMAIN goCalls : goCalls[g].promise # "pending"

----------------------------------------------------------------------------
(* Properties of the registry of nested routes *)

RECURSIVE OwnedInArray(_)

\* the children and aliases of the matcher that are in the array, and theirs
OwnedInArray(m) ==
  LET direct == (Range(created[m].children) \cup Range(created[m].alias))
                  \cap Range(matchers)
  IN direct \cup UNION {OwnedInArray(o) : o \in direct}

\* C31: the function addRoute returned removes the matcher the call created
\* with its aliases and its children in the array, children added later
\* included, and theirs in turn, and no other matcher; a name is unmapped
\* exactly when its matcher was removed.  Called when the matcher is no
\* longer in the array, it changes nothing.
HandleRemovesOwnMatchers ==
  /\ [][ \A o \in DOMAIN created :
           (/\ matchers' # matchers
            /\ Len(created') = Len(created)
            /\ RemoveAdded(o)) =>
             /\ Range(matchers) \ Range(matchers') = {o} \cup OwnedInArray(o)
             /\ \A name \in RouteNames :
                  matcherMap'[name] =
                    IF matcherMap[name] \in Range(matchers') \cup {0}
                    THEN matcherMap[name] ELSE 0 ]_vars
  /\ [](\A o \in DOMAIN created :
          (created[o].handle /\ o \notin Range(matchers)) =>
            removeRoute(Registry, ByMatcher(o)) = Registry)

\* /users/:id was replaced by /u/:id of the same name, which is in the array
\* and in the name map: the function the first addRoute returned is stale
StaleHandleOfReplacedRoute ==
  /\ Len(created) >= 2
  /\ created[1].record = "/users/:id"
  /\ created[1].handle
  /\ 1 \notin Range(matchers)
  /\ created[2].record = "/u/:id"
  /\ matcherMap["user"] = 2
  /\ 2 \in Range(matchers)

\* the matchers whose alias list holds the matcher
OriginalsOf(m) == {o \in DOMAIN created : m \in Range(created[o].alias)}

\* C32: no matcher of the array is orphaned: its parent, when it has one, is
\* in the array, and so are the matchers it is an alias of; every matcher of
\* the matched chain of a resolved path is in the array.
NoOrphanMatcher ==
  /\ \A m \in Range(matchers) :
       /\ created[m].parent # 0 => created[m].parent \in Range(matchers)
       /\ OriginalsOf(m) \subseteq Range(matchers)
  /\ \A path \in Paths \cup {<<"n", "same">>, <<"n", "same", "same">>} :
       Range(resolveLocation(Registry, path).matched) \subseteq Range(matchers)

\* the matchers of the array that carry the name and are not aliases
Canonical(name) ==
  {m \in Range(matchers) : created[m].name = name /\ ~isAliasRecord(Registry, m)}

\* C33: for every name the array holds at most one matcher that carries the
\* name and is not an alias, the name map maps the name to that matcher and
\* to none when there is none; no alias matcher is in the name map.
NameMapsToOneCanonical ==
  \A name \in RouteNames :
    /\ Cardinality(Canonical(name)) <= 1
    /\ matcherMap[name] # 0 => Canonical(name) = {matcherMap[name]}
    /\ matcherMap[name] = 0 => Canonical(name) = {}

\* C36: every matcher of the name map is in the array; removeRoute(name)
\* takes out of the array only the matcher the name maps to, its children
\* and aliases, and theirs.
NamedMatchersAreRanked ==
  /\ [](\A name \in RouteNames :
          matcherMap[name] # 0 => matcherMap[name] \in Range(matchers))
  /\ [][ \A name \in RouteNames :
           (/\ matcherMap[name] # 0
            /\ matchers' # matchers
            /\ Len(created') = Len(created)
            /\ RemoveRoute(name)) =>
             /\ matcherMap[name] \notin Range(matchers')
             /\ Range(matchers) \ Range(matchers') \subseteq
                  {matcherMap[name]} \cup Owned(created, matcherMap[name]) ]_vars

\* the parent /p and its child were removed by the name of the parent, the
\* route /users/:id registered next to them is still in the array
ParentRemovedNeighbourKept ==
  /\ Len(created) = 3
  /\ \E m \in DOMAIN created :
       /\ created[m].record = "/p"
       /\ created[m].children # <<>>
       /\ \A o \in {m} \cup Owned(created, m) : o \notin Range(matchers)
  /\ matcherMap["p"] = 0
  /\ Len(matchers) = 1
  /\ created[matchers[1]].record = "/users/:id"
  /\ matcherMap["user"] = matchers[1]

----------------------------------------------------------------------------
(* Properties of calls that end early *)

UnresolvedPushChangesNothing ==
  [][ (last' # last /\ last'.outcome = "unresolved") =>
        /\ last'.promise = "thrown"
        /\ pendingLocation' = pendingLocation
        /\ nextTok' = nextTok
        /\ currentRoute' = currentRoute
        /\ queue' = queue
        /\ position' = position
        /\ navs' = navs
        /\ \A t \in Toks :
             checkCanceledNavigation(State', t) = checkCanceledNavigation(State, t) ]_vars

\* a push of an unregistered name raised while a navigation waited on a
\* guard: the navigation is still the pending one
UnresolvedPushWhileGuardPending ==
  /\ last.outcome = "unresolved"
  /\ \E t \in Toks :
       /\ navs[t].st = "guard"
       /\ ~navs[t].superseded
       /\ pendingLocation = t
       /\ ~checkCanceledNavigation(State, t)

----------------------------------------------------------------------------
(* Properties of the histories *)

\* C37: in the web history the listeners are not called for a popstate event
\* that go(delta, false) caused, and they are called for every other
\* popstate event.
SilentGoSuppressesOwnEvent ==
  web.event.fired => (web.event.notified <=> ~web.event.silent)

\* C38: replace(to) of the memory history puts to in the place of the
\* current entry and leaves the position, the number of entries and every
\* other entry as they were.
ReplaceKeepsOtherEntries ==
  [][ \A to \in Targets :
        MemoryReplace(to) =>
          /\ position' = position
          /\ Len(queue') = Len(queue)
          /\ queue' = [queue EXCEPT ![position + 1] = to] ]_vars

\* C39: the position of the memory history is the index of an entry; push
\* keeps the entries up to the current one and makes the pushed location
\* the last and current entry; go moves by delta, stopping at the first and
\* at the last entry, and leaves the entries alone.
PositionWithinEntries ==
  /\ [](position >= 0 /\ position <= Len(queue) - 1)
  /\ [][ \A to \in Targets :
           MemoryPush(to) =>
             /\ queue' = Append(SubSeq(queue, 1, position + 1), to)
             /\ position' = Len(queue') - 1 ]_vars
  /\ [][ \A delta \in MemoryDeltas :
           MemoryGo(delta) =>
             /\ queue' = queue
             /\ position + delta < 0 => position' = 0
             /\ position + delta > Len(queue) - 1 => position' = Len(queue) - 1
             /\ position + delta \in 0..(Len(queue) - 1) =>
                  position' = position + delta ]_vars

\* three entries with the first one current: only go moves the position
\* away from the last entry
MovedBackToFirstEntry ==
  /\ Len(queue) = 3
  /\ position = 0
  /\ queue[3] \in Targets

----------------------------------------------------------------------------
(* Properties of unmounting *)

\* C40: a navigation that was in flight when the last app was unmounted
\* does not become the current location and makes no History call; as long
\* as no navigation started after the unmount has settled, the current
\* location is the start location and the router is not ready again.
UnmountedNavigationChangesNothing ==
  /\ last.unmounted => ~last.finalized /\ last.persisted = NONE
  /\ (last.unmounted /\ installedApps = 0 /\ \A t \in Toks : ~Live(navs[t])) =>
       currentRoute.start /\ ~ready

====
